---- MODULE Spec2Model ----
(***************************************************************************)
(* A model of lazypaw: the connection pool, the request handlers' use of   *)
(* it, the catalog lock, token verification, the DML transaction bracket   *)
(* and the change-feed engine.  Each part has its own specification; the   *)
(* variables of the other parts stay as Init left them.                    *)
(***************************************************************************)
EXTENDS Integers, Sequences, FiniteSets, TLC

\* ------------------------------------------------------------------ bounds
\* config.pool_size, the permit count of the pool's semaphore.
PoolSize == 2
\* Other users of the pool running beside the GET request: DML and RPC handlers,
\* the catalog loader, the change-feed poller.
NumClients == 2
\* Embeds of one select.
MaxEmbeds == 1

VARIABLES
    \* ---- pool.rs: Pool
    permits,        \* Pool.semaphore: available permits
    connections,    \* Pool.connections: the free list, a Vec popped at its end
    returning,      \* clients held by spawned return_connection tasks, not yet pushed
    permitDebt,     \* return_connection tasks past the push, before add_permits(1)
    \* ---- the tasks that use the pool: 0 is a GET request, the others single-batch callers
    pc,             \* where each task stands
    held,           \* the PooledConnection handles each task owns
    \* ---- handlers.rs: the GET request
    req,            \* its inputs: count preference, embeds, principal
    idx,            \* the statement of its program it is at
    log,            \* the batches it has executed, in order
    used,           \* the connections those batches ran on
    outcome         \* "none" | "ok" | "pool_error" | "sql_error"

VARIABLES
    \* ---- realtime.rs: RealtimeEngine
    table_subs,     \* table key -> subscription uuids, in registration order
    all_subs,       \* subscription uuid -> Subscription
    client_subs,    \* client -> subscription uuids, in registration order
    last_version,   \* the watermark, an AtomicI64
    engine,         \* "new" before init_version has run, "running" after
    \* ---- realtime.rs: the poll_loop task and the locals of its poll_once
    ppc,            \* "sleep" | "version" | "query" | "fanout" | "store"
    active_tables,  \* table keys with subscribers, read at the start of the tick
    current_version,\* the version read at the start of the tick
    last,           \* the watermark loaded by the tick
    rows,           \* rows of the change query not yet fanned out
    fanout,         \* what the latest fan-out decided, one entry per subscription
    \* ---- realtime_ws.rs: one handle_socket per WebSocket client
    wpc,            \* "open" | "reply" | "removing" | "closed"
    reply,          \* the acknowledgement handle_socket is about to send
    sub_uuids,      \* remove_client: the uuids it took from client_subs, and where its loop is
    queue,          \* the client's mpsc channel
    next_uuid,      \* subscriptions created so far, plus one
    \* ---- the database: one tracked table with one primary key value
    db_row,         \* the row's status column, or NoRow
    db_log          \* the tracked operations; the current change version is its length

poolVars == <<permits, connections, returning, permitDebt>>
taskVars == <<pc, held>>
getVars == <<req, idx, log, used, outcome>>
VARIABLES
    \* ---- handlers.rs: one DML request at a time (POST, PATCH, DELETE) and the
    \* pooled connection its batch runs on
    dml_pc,         \* "idle" | "run" | "done"
    dml_ip,         \* the statement of the batch the server is at
    dml_req,        \* the request: kind, row, value, Prefer header
    dml_batch,      \* full_sql, one statement per element
    dml_before,     \* the committed table when the request arrived
    dml_result,     \* "none" | "ok" | "pool_error" | "sql_error"
    dml_effect,     \* whether the DML statement changed rows
    committed,      \* the table as committed: row key -> value
    working,        \* the table as the connection's session sees it
    trancount       \* @@TRANCOUNT of the connection

VARIABLES
    \* ---- auth.rs: authenticate, as the handlers call it
    auth_pc,        \* "boot" | "serving" | "answered"
    auth_config,    \* AppConfig: auth_mode, jwt_secret, anon_role
    auth_header,    \* the Authorization header of the request
    auth_result     \* what authenticate returned

VARIABLES
    \* ---- auth.rs: OidcProvider and one validate call at a time
    cache,          \* CachedJwks: the keys and whether they are older than 24 hours
    jwks,           \* the key set the issuer serves now
    oidc_pc,        \* "idle" | "try" | "refresh" | "done"
    oidc_token,     \* the token being validated
    oidc_trace,     \* what the call has done so far
    oidc_result     \* what validate returned

VARIABLES
    \* ---- main.rs: AppState.schema behind its RwLock, the SIGHUP reload task,
    \* ---- handlers.rs: the request handlers that read the catalog
    schema,         \* SchemaCache.tables, the catalog requests resolve names in
    guards,         \* the handlers holding a read guard on AppState.schema
    reload_pc,      \* "idle" | "load" | "ok" | "err" | "write"
    step,           \* load_schema: index in Steps of the statement to run next
    tables,         \* load_schema: the local map being built
    prev,           \* the catalog that was visible when the reload began
    failed_at,      \* the step of the last reload that failed, or "none"
    db_gen,         \* the generation of the database's schema (DDL raises it)
    h_pc,           \* handler -> "idle" | "resolve" | "pool" | "query" | "embeds"
    h_method,       \* handler -> "GET" | "POST" | "PATCH" | "DELETE"
    h_table         \* handler -> the TableInfo it resolved, or NoTable

VARIABLES
    \* ---- query.rs, handlers.rs, auth.rs: the SQL text built for one request
    sql_pc,         \* "idle" | "built"
    sql_call,       \* the builder that ran and its arguments
    built           \* BuiltQuery: sql, params, and the error if the builder failed

VARIABLES
    \* ---- router.rs, handlers.rs, select.rs: what a request's path and its
    \* ---- select parameter are parsed into
    parse_pc,       \* "idle" | "parsed"
    parse_call,     \* the parser that ran and its input
    parsed          \* what it returned

VARIABLES
    \* ---- handlers.rs: handle_embeds on the rows of one GET
    emb_pc,         \* "idle" | "resolve" | "query" | "done" | "failed"
    emb_select,     \* the select nodes of the request
    emb_parents,    \* the rows the main query returned
    emb_rows,       \* rows: the same rows as handle_embeds changes them
    emb_i,          \* the index of the embed being resolved
    emb_queries     \* the target tables of the batch queries sent so far

VARIABLES
    \* ---- auth.rs: the session prologue of one request
    ses_pc,         \* "idle" | "build" | "built"
    ses_claims,     \* the claims of the verified token, or NoClaims
    ses_config,     \* context_claims, role_claim, role_map, anon_role
    ses_stmts       \* the statements of the prologue, in order

VARIABLES
    \* ---- realtime.rs, realtime_ws.rs: the fan-out to two clients' channels
    fo_all_subs,    \* uuid -> subscription
    fo_table_subs,  \* the uuids subscribed to the table, in registration order
    fo_next_uuid,   \* the index into Uuids of the next subscription
    fo_queue,       \* client -> its mpsc channel
    fo_reply,       \* client -> the acknowledgement its handler is sending
    fo_pc,          \* the poller: "sleep" | "fanout"
    fo_rows,        \* the rows of the change query not yet fanned out
    fo_seen         \* what the fan-out of the last row decided

VARIABLES
    \* ---- handlers.rs, pool.rs: the session state of pooled connections
    imp_pc,         \* the handler: "idle" | "get" | "query" | "done"
    imp_req,        \* the request: count preference, embeds, principal
    imp_idx,        \* the statement of its program it is at
    imp_held,       \* the connection the handler holds, as a set
    imp_free,       \* Pool.connections: the free list
    imp_returning,  \* connections with a spawned return_connection task
    imp_context,    \* connection -> the user its session executes as
    imp_ran         \* the batches of the request with the user each ran as

VARIABLES
    \* ---- realtime_ws.rs: ws_handler and the socket it upgrades
    wsa_pc,         \* "boot" | "serving" | "open"
    wsa_config,     \* the server's auth_mode, jwt_secret, anon_role
    wsa_token,      \* the token query parameter of the upgrade request
    wsa_claims,     \* the claims ws_handler passes to handle_socket
    wsa_subscribed, \* the socket has registered a subscription
    wsa_received    \* the socket has been sent a change event

VARIABLES
    \* ---- realtime.rs: the change feed, one subscription per table at most
    fd_log,         \* the committed changes: change i is on table fd_log[i], version i
    fd_since,       \* table -> <<>> or <<the database version when it was subscribed>>
    fd_last_version,\* the watermark
    fd_pc,          \* "sleep" | "version" | "query"
    fd_active,      \* the tables with subscribers, read at the start of the tick
    fd_todo,        \* the active tables the tick has not queried yet
    fd_current,     \* the version the tick read
    fd_last,        \* the watermark the tick loaded
    fd_skipped,     \* the tables whose change query failed in this tick
    fd_delivered,   \* <<table, version>> of the changes fanned out so far
    fd_again        \* the changes fanned out when they had been fanned out before

engineVars == <<table_subs, all_subs, client_subs, last_version, engine>>
pollVars == <<ppc, active_tables, current_version, last, rows, fanout>>
wsVars == <<wpc, reply, sub_uuids, queue, next_uuid>>
dbVars == <<db_row, db_log>>
rtVars == <<engineVars, pollVars, wsVars, dbVars>>
dmlVars == <<dml_pc, dml_ip, dml_req, dml_batch, dml_before, dml_result, dml_effect,
             committed, working, trancount>>
authVars == <<auth_pc, auth_config, auth_header, auth_result>>
oidcVars == <<cache, jwks, oidc_pc, oidc_token, oidc_trace, oidc_result>>
catalogVars == <<schema, guards, reload_pc, step, tables, prev, failed_at, db_gen,
                 h_pc, h_method, h_table>>
sqlVars == <<sql_pc, sql_call, built>>
parseVars == <<parse_pc, parse_call, parsed>>
embedVars == <<emb_pc, emb_select, emb_parents, emb_rows, emb_i, emb_queries>>
sessionVars == <<ses_pc, ses_claims, ses_config, ses_stmts>>
fanOutVars == <<fo_all_subs, fo_table_subs, fo_next_uuid, fo_queue, fo_reply, fo_pc,
               fo_rows, fo_seen>>
impVars == <<imp_pc, imp_req, imp_idx, imp_held, imp_free, imp_returning, imp_context,
            imp_ran>>
wsaVars == <<wsa_pc, wsa_config, wsa_token, wsa_claims, wsa_subscribed, wsa_received>>
feedVars == <<fd_log, fd_since, fd_last_version, fd_pc, fd_active, fd_todo, fd_current,
              fd_last, fd_skipped, fd_delivered, fd_again>>
vars == <<poolVars, taskVars, getVars, rtVars, dmlVars, authVars, oidcVars, catalogVars,
         sqlVars, parseVars, embedVars, sessionVars, fanOutVars, impVars, wsaVars, feedVars>>

Get == 0
Clients == 1..NumClients
Tasks == {Get} \cup Clients
\* Identities of physical connections; a connection is opened only under a permit.
ConnIds == 1..(PoolSize + 1)

Range(s) == {s[i] : i \in 1..Len(s)}

\* ------------------------------------------------------------------ pool.rs
Live == Range(connections) \cup returning \cup UNION {held[t] : t \in Tasks}

\* claw::connect: a connection no one else has.
NewConn == CHOOSE c \in ConnIds : c \notin Live /\ \A d \in ConnIds : d \notin Live => c <= d

\* get_acquire as it would be if the semaphore were not awaited.
get_acquire_unguarded(t) ==
    /\ pc[t] = "acquire"
    /\ permits' = permits - 1
    /\ pc' = [pc EXCEPT ![t] = "pop"]
    /\ UNCHANGED <<connections, returning, permitDebt, held, getVars>>

\* Pool::get, self.semaphore.acquire().await: blocks until a permit is free.
get_acquire(t) ==
    /\ pc[t] = "acquire"
    /\ permits > 0
    /\ permits' = permits - 1
    /\ pc' = [pc EXCEPT ![t] = "pop"]
    /\ UNCHANGED <<connections, returning, permitDebt, held, getVars>>

\* Pool::get, conns.pop() under the mutex: an idle connection is handed out, the
\* permit is forgotten (it stays taken until return_connection gives it back).
get_pop(t) ==
    /\ pc[t] = "pop"
    /\ IF connections # <<>>
       THEN /\ held' = [held EXCEPT ![t] = @ \cup {connections[Len(connections)]}]
            /\ connections' = SubSeq(connections, 1, Len(connections) - 1)
            /\ pc' = [pc EXCEPT ![t] = "query"]
       ELSE /\ pc' = [pc EXCEPT ![t] = "create"]
            /\ UNCHANGED <<held, connections>>
    /\ UNCHANGED <<permits, returning, permitDebt, getVars>>

\* Pool::get, create_connection().await succeeded.
get_create_ok(t) ==
    /\ pc[t] = "create"
    /\ held' = [held EXCEPT ![t] = @ \cup {NewConn}]
    /\ pc' = [pc EXCEPT ![t] = "query"]
    /\ UNCHANGED <<poolVars, getVars>>

\* The mutation of get_create_err in which the permit of the failed attempt is
\* not given back.
get_create_err_keeping_permit(t) ==
    /\ pc[t] = "create"
    /\ permits' = permits
    /\ pc' = [pc EXCEPT ![t] = IF t = Get THEN "done" ELSE "idle"]
    /\ outcome' = IF t = Get THEN "pool_error" ELSE outcome
    /\ UNCHANGED <<connections, returning, permitDebt, held, req, idx, log, used>>

\* Pool::get, create_connection().await? failed: the `?` returns Error::Pool and
\* drops _permit, which gives the permit back.  The caller's `?` ends it.
get_create_err(t) ==
    /\ pc[t] = "create"
    /\ permits' = permits + 1
    /\ pc' = [pc EXCEPT ![t] = IF t = Get THEN "done" ELSE "idle"]
    /\ outcome' = IF t = Get THEN "pool_error" ELSE outcome
    /\ UNCHANGED <<connections, returning, permitDebt, held, req, idx, log, used>>

\* Pool::return_connection, first half: push under the mutex unless saturated.
return_push(c) ==
    /\ c \in returning
    /\ returning' = returning \ {c}
    /\ connections' = IF Len(connections) < PoolSize THEN Append(connections, c)
                      ELSE connections
    /\ permitDebt' = permitDebt + 1
    /\ UNCHANGED <<permits, taskVars, getVars>>

\* Pool::return_connection, second half: self.semaphore.add_permits(1).
return_add_permit ==
    /\ permitDebt > 0
    /\ permitDebt' = permitDebt - 1
    /\ permits' = permits + 1
    /\ UNCHANGED <<connections, returning, taskVars, getVars>>

\* drop_conn as it would be if the handle outlived the statement.
drop_conn_kept(t, c) ==
    /\ held' = held
    /\ returning' = returning

\* impl Drop for PooledConnection: the handle is gone, a task is spawned that
\* will return the client.
drop_conn(t, c) ==
    /\ held' = [held EXCEPT ![t] = @ \ {c}]
    /\ returning' = returning \cup {c}

\* ------------------------------------------------------------- handlers.rs
NoUser == "anon"
Principals == {NoUser, "alice"}

\* auth::build_session_context_sql: EXECUTE AS USER when a principal was resolved.
build_session_context_sql(user) ==
    IF user = NoUser THEN <<>> ELSE <<"EXECUTE AS USER">>

\* The handler between requests.
NoRequest == [count |-> FALSE, embeds |-> 0, principal |-> NoUser]

\* handle_get: the statements of one GET, in submission order: the count query
\* when Prefer count=exact, the main query, one batch query per embed.
Program(q) ==
    (IF q.count THEN <<"count">> ELSE <<>>) \o <<"main">> \o [i \in 1..q.embeds |-> "embed"]

\* The batch text sent for one statement: execute_query_to_json puts SET NOCOUNT
\* ON first, handle_embeds puts the session statements before it.
full_sql(stmt, user) ==
    IF stmt = "embed"
    THEN build_session_context_sql(user) \o <<"SET NOCOUNT ON", stmt>>
    ELSE <<"SET NOCOUNT ON">> \o build_session_context_sql(user) \o <<stmt>>

\* handle_get up to its first pool.get(): the inputs are parsed and the first
\* statement built.
handle_get ==
    /\ pc[Get] = "idle"
    /\ \E c \in BOOLEAN, e \in 0..MaxEmbeds, u \in Principals :
           req' = [count |-> c, embeds |-> e, principal |-> u]
    /\ pc' = [pc EXCEPT ![Get] = "acquire"]
    /\ UNCHANGED <<poolVars, held, idx, log, used, outcome>>

\* execute_query_to_json / handle_embeds after pool.get(): the batch runs on the
\* connection just acquired; the function returns and conn is dropped, with the
\* rows or with Error::Sql.
execute_query_to_json(ok) ==
    /\ pc[Get] = "query"
    /\ \E c \in held[Get] :
          /\ log' = Append(log, [stmt |-> Program(req)[idx],
                                 batch |-> full_sql(Program(req)[idx], req.principal),
                                 sole |-> held[Get] = {c}])
          /\ used' = used \cup {c}
          /\ drop_conn(Get, c)
    /\ IF ok /\ idx < Len(Program(req))
       THEN /\ idx' = idx + 1
            /\ pc' = [pc EXCEPT ![Get] = "acquire"]
            /\ UNCHANGED outcome
       ELSE /\ pc' = [pc EXCEPT ![Get] = "done"]
            /\ outcome' = IF ok THEN "ok" ELSE "sql_error"
            /\ UNCHANGED idx
    /\ UNCHANGED <<permits, connections, permitDebt, req>>

execute_query_ok == execute_query_to_json(TRUE)
execute_query_err == execute_query_to_json(FALSE)

\* The response is sent; the handler takes the next request.
respond ==
    /\ pc[Get] = "done"
    /\ pc' = [pc EXCEPT ![Get] = "idle"]
    /\ req' = NoRequest
    /\ idx' = 1
    /\ log' = <<>>
    /\ used' = {}
    /\ outcome' = "none"
    /\ UNCHANGED <<poolVars, held>>

\* A single-batch caller (execute_dml_query, handle_rpc, load_schema, poll_once)
\* reaches its pool.get().
client_get(t) ==
    /\ t \in Clients
    /\ pc[t] = "idle"
    /\ pc' = [pc EXCEPT ![t] = "acquire"]
    /\ UNCHANGED <<poolVars, held, getVars>>

\* The caller's batch is over, with rows or an error: conn goes out of scope.
client_drop(t) ==
    /\ t \in Clients
    /\ pc[t] = "query"
    /\ \E c \in held[t] : drop_conn(t, c)
    /\ pc' = [pc EXCEPT ![t] = "idle"]
    /\ UNCHANGED <<permits, connections, permitDebt, getVars>>

\* ------------------------------------------------------- specification: pool
InitPool ==
    /\ permits = PoolSize
    /\ connections = <<>>
    /\ returning = {}
    /\ permitDebt = 0
    /\ pc = [t \in Tasks |-> "idle"]
    /\ held = [t \in Tasks |-> {}]
    /\ req = NoRequest
    /\ idx = 1
    /\ log = <<>>
    /\ used = {}
    /\ outcome = "none"

NextPool ==
    \/ handle_get
    \/ execute_query_ok
    \/ execute_query_err
    \/ respond
    \/ \E t \in Clients : client_get(t)
    \/ \E t \in Clients : client_drop(t)
    \/ \E t \in Tasks : get_acquire(t)
    \/ \E t \in Tasks : get_pop(t)
    \/ \E t \in Tasks : get_create_ok(t)
    \/ \E t \in Tasks : get_create_err(t)
    \/ \E c \in ConnIds : return_push(c)
    \/ return_add_permit


\* -------------------------------------------------------------- claims: pool
\* Handles handed out by Pool::get whose release has not yet returned its permit:
\* those still owned, those in a spawned return task, those pushed back whose
\* add_permits(1) is still to come.
InUse ==
    Cardinality({t \in Tasks : held[t] # {}}) + Cardinality(returning) + permitDebt

\* C1: under any interleaving of Pool::get calls and PooledConnection drops, the
\* number of connections in use never exceeds pool_size.
C1_InUseBounded ==
    /\ InUse <= PoolSize
    /\ \A t \in Tasks : Cardinality(held[t]) <= 1
    /\ permits >= 0

\* The pool is exhausted and a caller is blocked in acquire.
C1_Witness ==
    /\ InUse = PoolSize
    /\ permits = 0
    /\ \E t \in Tasks : pc[t] = "acquire"
    /\ \E t \in Tasks : pc[t] = "query"

\* C2 as stated: every batch of one request runs on one and the same pooled
\* connection.
C2_SameConnection == Cardinality(used) <= 1

\* The session statements and SET NOCOUNT ON precede the query, which ends the batch.
HasPrologue(batch, stmt, user) ==
    /\ batch[Len(batch)] = stmt
    /\ \E i \in 1..(Len(batch) - 1) : batch[i] = "SET NOCOUNT ON"
    /\ (user # NoUser) <=> \E i \in 1..(Len(batch) - 1) : batch[i] = "EXECUTE AS USER"

\* C2 as amended: the statements of one request run in submission order, each
\* as its own batch with its own prologue on the connection acquired for that
\* statement and released after it; the request holds at most one connection
\* at a time.
C2_ConnectionPerStatement ==
    /\ Cardinality(held[Get]) <= 1
    /\ pc[Get] \in {"idle", "acquire", "pop", "create", "done"} => held[Get] = {}
    /\ Len(log) <= Len(Program(req))
    /\ \A i \in 1..Len(log) :
          /\ log[i].stmt = Program(req)[i]
          /\ log[i].sole
          /\ HasPrologue(log[i].batch, log[i].stmt, req.principal)
    /\ pc[Get] \in {"acquire", "pop", "create", "query"} => idx = Len(log) + 1

\* A request with count, main and embed batches has finished, and its batches
\* ran on two different connections.
C2_Witness ==
    /\ pc[Get] = "done"
    /\ outcome = "ok"
    /\ Len(log) >= 2
    /\ log[Len(log)].stmt = "embed"
    /\ Cardinality(used) = 2

\* ------------------------------------------------------- change-feed engine
\* Versions the database hands out before the model stops writing to it.
MaxVersion == 2
\* mpsc::channel(256) in handle_socket: the capacity of a client's channel,
\* scaled down to one message.
QueueCap == 1

\* The WebSocket client beside the poller.
WsClients == {"w1"}
\* Uuid::new_v4: the uuids of the subscriptions created over one run, in the
\* order they are handed out.
Uuids == <<"u1", "u2">>
NoRow == "absent"
Statuses == {"open", "paid"}
PkValue == 1

\* serde_json values: [kind, s, n]; s is the text of a string, n the number or
\* the truth value.
JsonString(str) == [kind |-> "string", s |-> str, n |-> 0]
JsonNumber(num) == [kind |-> "number", s |-> "", n |-> num]
JsonBool(b) == [kind |-> "bool", s |-> "", n |-> IF b THEN 1 ELSE 0]
JsonNull == [kind |-> "null", s |-> "", n |-> 0]

\* str::to_lowercase and str::to_uppercase on the words the clients send.
to_lowercase(str) ==
    CASE str \in {"NULL", "Null"} -> "null"
      [] str \in {"TRUE", "True"} -> "true"
      [] str \in {"FALSE", "False"} -> "false"
      [] OTHER -> str
to_uppercase(str) ==
    CASE str \in {"insert", "Insert"} -> "INSERT"
      [] str \in {"update", "Update"} -> "UPDATE"
      [] str \in {"delete", "Delete"} -> "DELETE"
      [] OTHER -> str

\* str::parse::<f64> on the decimal strings of the model; NotANumber for the rest.
NotANumber == -1
Digits == 0..9
parse_f64(str) ==
    IF \E d \in Digits : ToString(d) = str
    THEN CHOOSE d \in Digits : ToString(d) = str
    ELSE NotANumber

\* The byte order of the strings of the model, for the comparison fallback.
LexOrder == <<"0", "1", "2", "null", "open", "paid", "sent">>
LexRank(str) == CHOOSE i \in 1..Len(LexOrder) : LexOrder[i] = str

\* filters.rs: FilterValue
Single(str) == [kind |-> "single", s |-> str, items |-> <<>>]
List(strs) == [kind |-> "list", s |-> "", items |-> strs]

\* str::split(','), on a text given as its tokens: the items, "(", ")" and ",".
\* An item is one token; nothing between two commas is the empty string.
RECURSIVE split_commas(_, _)
split_commas(s, cur) ==
    CASE s = <<>> -> <<cur>>
      [] Head(s) = "," -> <<cur>> \o split_commas(Tail(s), "")
      [] OTHER -> split_commas(Tail(s), Head(s))

\* filters.rs 144-158: parse_list
parse_list(s) ==
    LET inner == IF Len(s) >= 2 /\ s[1] = "(" /\ s[Len(s)] = ")"
                 THEN SubSeq(s, 2, Len(s) - 1) ELSE s
    IN  SelectSeq(split_commas(inner, ""), LAMBDA v : v # "")

\* str::replace('*', "%") on the patterns of the model.
like_pattern(str) ==
    CASE str = "p*" -> "p%"
      [] str = "*a*" -> "%a%"
      [] OTHER -> str

\* filters.rs 50-142: parse_filter, on an expression already split at its
\* dots: [negated, op, arg], and for in the tokens of the list as list.
parse_filter(column, expr) ==
    [column |-> column,
     operator |-> expr.op,
     value |-> CASE expr.op = "in" -> List(parse_list(expr.list))
                 [] expr.op \in {"like", "ilike"} -> Single(like_pattern(expr.arg))
                 [] OTHER -> Single(expr.arg),
     negated |-> expr.negated]

\* realtime.rs: filter_matches, the text a value is compared as.
val_str(value) ==
    CASE value.kind = "string" -> value.s
      [] value.kind = "number" -> ToString(value.n)
      [] value.kind = "bool" -> IF value.n = 1 THEN "true" ELSE "false"
      [] OTHER -> "null"

\* realtime.rs: filter_matches, the ordering operators: numeric when both
\* sides parse as numbers, else the order of the strings.
compare(operator, a, b) ==
    LET na == parse_f64(a)
        nb == parse_f64(b)
        x == IF na # NotANumber /\ nb # NotANumber THEN na ELSE LexRank(a)
        y == IF na # NotANumber /\ nb # NotANumber THEN nb ELSE LexRank(b)
    IN  CASE operator = "gt" -> x > y
          [] operator = "gte" -> x >= y
          [] operator = "lt" -> x < y
          [] OTHER -> x <= y

filter_matches(filter, value) ==
    LET v == val_str(value)
        single == filter.value.kind = "single"
        result ==
            CASE filter.operator = "eq" -> IF single THEN v = filter.value.s ELSE TRUE
              [] filter.operator = "neq" -> IF single THEN v # filter.value.s ELSE TRUE
              [] filter.operator = "in" -> IF single THEN TRUE ELSE v \in Range(filter.value.items)
              [] filter.operator = "is" ->
                    IF ~single THEN TRUE
                    ELSE CASE to_lowercase(filter.value.s) = "null" -> value.kind = "null"
                           [] to_lowercase(filter.value.s) = "true" -> value = JsonBool(TRUE)
                           [] to_lowercase(filter.value.s) = "false" -> value = JsonBool(FALSE)
                           [] OTHER -> TRUE
              [] filter.operator \in {"gt", "gte", "lt", "lte"} ->
                    IF single THEN compare(filter.operator, v, filter.value.s) ELSE TRUE
              [] OTHER -> TRUE
    IN  IF filter.negated THEN ~result ELSE result

\* realtime.rs: poll_once, the record built from a row of the change query:
\* the primary key alone for a DELETE, the table's columns otherwise.
record_of(row) ==
    IF row.op = "D"
    THEN [k \in {"id"} |-> JsonNumber(row.ct_id)]
    ELSE [k \in {"id", "status"} |->
            IF k = "id" THEN JsonNumber(row.ct_id) ELSE JsonString(row.status)]

\* realtime.rs: poll_once, the filter loop: a filter whose column the record
\* lacks is passed over.
filters_skipping_absent(sub, record) ==
    sub.filter.some =>
        \A i \in 1..Len(sub.filter.list) :
            sub.filter.list[i].column \in DOMAIN record =>
                filter_matches(sub.filter.list[i], record[sub.filter.list[i].column])

\* realtime.rs: poll_once, whether a change is sent to a subscription.
passes(sub, op, record) ==
    /\ op \in sub.events
    /\ filters_skipping_absent(sub, record)

ChangeOp(letter) ==
    CASE letter = "I" -> "INSERT" [] letter = "U" -> "UPDATE" [] OTHER -> "DELETE"

\* realtime.rs: ServerMessage, without the table and the record it carries.
Change(sub, op, record) == [type |-> op, id |-> sub.id]

\* A send that puts the message in the channel whether or not there is room.
send_unbounded(q, msg) == Append(q, msg)
\* mpsc::Sender::try_send: the message is dropped when the channel is full.
try_send(q, msg) == IF Len(q) < QueueCap THEN Append(q, msg) ELSE q

\* ---- the catalog the engine resolves table names in
RtCatalog == [t \in {"dbo.orders", "dbo.notes"} |-> [change_tracking_enabled |-> t = "dbo.orders"]]
\* format!("{}.{}", schema_name, table_name) with the default schema.
table_key_of(table) ==
    CASE table = "orders" -> "dbo.orders"
      [] table = "notes" -> "dbo.notes"
      [] OTHER -> "dbo.nosuch"

\* ---- the subscribe messages clients send (realtime_ws.rs: ClientMessage)
NoFilter == [some |-> FALSE, list |-> <<>>]
NoEvents == [some |-> FALSE, list |-> {}]
StatusPaid == [key |-> "status", negated |-> FALSE, op |-> "eq", arg |-> "paid"]
SubscribeMsgs ==
    { [id |-> "a", table |-> "orders", filter |-> NoFilter, events |-> NoEvents],
      [id |-> "b", table |-> "orders",
       filter |-> [some |-> TRUE, list |-> <<StatusPaid>>],
       events |-> [some |-> TRUE, list |-> {"insert", "DELETE"}]],
      [id |-> "a", table |-> "notes", filter |-> NoFilter, events |-> NoEvents] }
SubIds == {m.id : m \in SubscribeMsgs}

\* realtime.rs: subscribe, the event set: every kind when none is named, and a
\* name that is no kind counts as INSERT.
event_set(events) ==
    IF events.some
    THEN {IF to_uppercase(e) \in {"INSERT", "UPDATE", "DELETE"} THEN to_uppercase(e)
          ELSE "INSERT" : e \in events.list}
    ELSE {"INSERT", "UPDATE", "DELETE"}

\* realtime.rs: subscribe, the filter list.
parsed_filters(filter) ==
    [some |-> filter.some,
     list |-> [i \in 1..Len(filter.list) |->
                  parse_filter(filter.list[i].key, filter.list[i])]]

Retain(seq, u) == SelectSeq(seq, LAMBDA x : x # u)
Insert(map, k, v) == [x \in DOMAIN map \cup {k} |-> IF x = k THEN v ELSE map[x]]
Remove(map, k) == [x \in DOMAIN map \ {k} |-> map[x]]

NoReply == [type |-> "none", id |-> ""]

\* realtime.rs: subscribe, called by handle_socket, which then sends the
\* acknowledgement or the error.
subscribe(c, m) ==
    LET table_key == table_key_of(m.table)
        found == table_key \in DOMAIN RtCatalog /\ RtCatalog[table_key].change_tracking_enabled
        sub == [id |-> m.id, table_key |-> table_key, client_tx |-> c,
                filter |-> parsed_filters(m.filter), events |-> event_set(m.events)]
    IN  /\ engine = "running"
        /\ wpc[c] = "open"
        /\ next_uuid <= Len(Uuids)
        /\ IF found
           THEN /\ all_subs' = Insert(all_subs, Uuids[next_uuid], sub)
                /\ table_subs' = [table_subs EXCEPT ![table_key] = Append(@, Uuids[next_uuid])]
                /\ client_subs' = [client_subs EXCEPT ![c] = Append(@, Uuids[next_uuid])]
                /\ next_uuid' = next_uuid + 1
                /\ reply' = [reply EXCEPT ![c] = [type |-> "subscribed", id |-> m.id]]
           ELSE /\ UNCHANGED <<all_subs, table_subs, client_subs, next_uuid>>
                /\ reply' = [reply EXCEPT ![c] = [type |-> "error", id |-> m.id]]
        /\ wpc' = [wpc EXCEPT ![c] = "reply"]
        /\ UNCHANGED <<last_version, engine, pollVars, sub_uuids, queue, dbVars>>

\* realtime.rs: unsubscribe: the first subscription of the client with the id.
unsubscribe(c, id) ==
    LET mine == SelectSeq(client_subs[c],
                          LAMBDA u : u \in DOMAIN all_subs /\ all_subs[u].id = id)
    IN  /\ engine = "running"
        /\ wpc[c] = "open"
        /\ IF mine # <<>>
           THEN LET uuid == Head(mine)
                IN  /\ all_subs' = Remove(all_subs, uuid)
                    /\ table_subs' = [table_subs EXCEPT
                                        ![all_subs[uuid].table_key] = Retain(@, uuid)]
                    /\ client_subs' = [client_subs EXCEPT ![c] = Retain(@, uuid)]
           ELSE UNCHANGED <<all_subs, table_subs, client_subs>>
        /\ reply' = [reply EXCEPT ![c] = [type |-> "unsubscribed", id |-> id]]
        /\ wpc' = [wpc EXCEPT ![c] = "reply"]
        /\ UNCHANGED <<last_version, engine, pollVars, sub_uuids, queue, next_uuid, dbVars>>

\* realtime_ws.rs: handle_socket, tx.send(..).await of the acknowledgement: it
\* waits for room in the channel.
send_reply(c) ==
    /\ wpc[c] = "reply"
    /\ Len(queue[c]) < QueueCap
    /\ queue' = [queue EXCEPT ![c] = Append(@, reply[c])]
    /\ reply' = [reply EXCEPT ![c] = NoReply]
    /\ wpc' = [wpc EXCEPT ![c] = "open"]
    /\ UNCHANGED <<engineVars, pollVars, sub_uuids, next_uuid, dbVars>>

\* realtime_ws.rs: send_task: forwards the head of the channel to the socket.
send_task(c) ==
    /\ wpc[c] # "closed"
    /\ queue[c] # <<>>
    /\ queue' = [queue EXCEPT ![c] = Tail(@)]
    /\ UNCHANGED <<engineVars, pollVars, wpc, reply, sub_uuids, next_uuid, dbVars>>

\* realtime.rs: remove_client, its first statement: the client's entry is
\* taken out of client_subs; handle_socket calls it when the socket closes.
remove_client_begin(c) ==
    /\ engine = "running"
    /\ wpc[c] = "open"
    /\ sub_uuids' = [sub_uuids EXCEPT ![c] = [all |-> client_subs[c], i |-> 1]]
    /\ client_subs' = [client_subs EXCEPT ![c] = <<>>]
    /\ wpc' = [wpc EXCEPT ![c] = "removing"]
    /\ UNCHANGED <<table_subs, all_subs, last_version, engine, pollVars, reply, queue,
                   next_uuid, dbVars>>

\* The mutation of remove_client_next that leaves table_subs alone.
remove_client_next_keeping_table(c) ==
    /\ wpc[c] = "removing"
    /\ sub_uuids[c].i <= Len(sub_uuids[c].all)
    /\ all_subs' = IF sub_uuids[c].all[sub_uuids[c].i] \in DOMAIN all_subs
                   THEN Remove(all_subs, sub_uuids[c].all[sub_uuids[c].i]) ELSE all_subs
    /\ sub_uuids' = [sub_uuids EXCEPT ![c].i = @ + 1]
    /\ UNCHANGED <<table_subs, client_subs, last_version, engine, pollVars, wpc, reply,
                   queue, next_uuid, dbVars>>

\* realtime.rs: remove_client, one turn of its loop: all_subs and table_subs are
\* locked for this one uuid and unlocked again before the next.
remove_client_next(c) ==
    /\ wpc[c] = "removing"
    /\ sub_uuids[c].i <= Len(sub_uuids[c].all)
    /\ LET uuid == sub_uuids[c].all[sub_uuids[c].i]
       IN  IF uuid \in DOMAIN all_subs
           THEN /\ all_subs' = Remove(all_subs, uuid)
                /\ table_subs' = [table_subs EXCEPT
                                    ![all_subs[uuid].table_key] = Retain(@, uuid)]
           ELSE UNCHANGED <<all_subs, table_subs>>
    /\ sub_uuids' = [sub_uuids EXCEPT ![c].i = @ + 1]
    /\ UNCHANGED <<client_subs, last_version, engine, pollVars, wpc, reply, queue,
                   next_uuid, dbVars>>

\* realtime.rs: remove_client returns; handle_socket aborts send_task, and the
\* channel goes with it.
remove_client_return(c) ==
    /\ wpc[c] = "removing"
    /\ sub_uuids[c].i > Len(sub_uuids[c].all)
    /\ wpc' = [wpc EXCEPT ![c] = "closed"]
    /\ queue' = [queue EXCEPT ![c] = <<>>]
    /\ UNCHANGED <<engineVars, pollVars, reply, sub_uuids, next_uuid, dbVars>>

\* ---- the database
\* A committed INSERT, UPDATE or DELETE of the row; change tracking logs it.
db_write(letter, status) ==
    /\ Len(db_log) < MaxVersion
    /\ CASE letter = "I" -> db_row = NoRow /\ db_row' = status
         [] letter = "U" -> db_row # NoRow /\ db_row' = status
         [] OTHER -> db_row # NoRow /\ db_row' = NoRow
    /\ db_log' = Append(db_log, letter)
    /\ UNCHANGED <<engineVars, pollVars, wsVars>>

\* The database is restored from a backup taken when it was empty: the current
\* change version is older than before.
db_restore ==
    /\ db_log # <<>>
    /\ db_log' = <<>>
    /\ db_row' = NoRow
    /\ UNCHANGED <<engineVars, pollVars, wsVars>>

\* SELECT CHANGE_TRACKING_CURRENT_VERSION()
db_version == Len(db_log)

\* CHANGETABLE(CHANGES t, since) LEFT JOIN t: the net change of the row since
\* the version, with the row's columns as they are at the time of the query.
changes(since) ==
    LET from == (IF since < 0 THEN 0 ELSE since) + 1
    IN  IF from > Len(db_log) THEN <<>>
        ELSE << [op |-> IF db_log[Len(db_log)] = "D" THEN "D"
                        ELSE IF db_log[from] = "I" THEN "I" ELSE "U",
                 version |-> Len(db_log),
                 ct_id |-> PkValue,
                 status |-> db_row] >>

\* ---- the engine's tasks
\* realtime.rs: init_version: the current version, 0 when the database reports
\* none, nothing when the connection or the query fails.
init_version(res) ==
    /\ engine = "new"
    /\ last_version' = CASE res = "number" -> db_version
                         [] res = "null" -> 0
                         [] OTHER -> last_version
    /\ engine' = "running"
    /\ UNCHANGED <<table_subs, all_subs, client_subs, pollVars, wsVars, dbVars>>

\* realtime.rs: poll_once returns: its locals are gone.
poll_return ==
    /\ ppc' = "sleep"
    /\ active_tables' = {}
    /\ current_version' = 0
    /\ last' = 0
    /\ rows' = <<>>
    /\ fanout' = {}

\* realtime.rs: poll_once, the tables with subscribers; none ends the tick.
poll_once ==
    /\ engine = "running"
    /\ ppc = "sleep"
    /\ LET active == {t \in DOMAIN table_subs : table_subs[t] # <<>>}
       IN  IF active = {}
           THEN UNCHANGED pollVars
           ELSE /\ active_tables' = active
                /\ ppc' = "version"
                /\ UNCHANGED <<current_version, last, rows, fanout>>
    /\ UNCHANGED <<engineVars, wsVars, dbVars>>

\* The mutation of poll_version that goes on whatever the version is.
poll_version_unchecked(res) ==
    /\ ppc = "version"
    /\ IF res = "number"
       THEN /\ current_version' = db_version
            /\ last' = last_version
            /\ ppc' = "query"
            /\ UNCHANGED <<active_tables, rows, fanout>>
       ELSE poll_return
    /\ UNCHANGED <<engineVars, wsVars, dbVars>>

\* realtime.rs: poll_once, the connection, the current version and the
\* comparison with the watermark: the tick ends when the connection or the
\* query fails, when there is no version, and when the version is not newer.
poll_version(res) ==
    /\ ppc = "version"
    /\ IF res = "number" /\ db_version > last_version
       THEN /\ current_version' = db_version
            /\ last' = last_version
            /\ ppc' = "query"
            /\ UNCHANGED <<active_tables, rows, fanout>>
       ELSE poll_return
    /\ UNCHANGED <<engineVars, wsVars, dbVars>>

\* Where the tick goes when the rows of a table are done.
after_rows(rest) == IF rest = {} THEN "store" ELSE "query"

\* realtime.rs: poll_once, the change query of one table, bound to the
\* watermark the tick loaded; a failed query skips the table.
poll_query(t, ok) ==
    /\ ppc = "query"
    /\ t \in active_tables
    /\ active_tables' = active_tables \ {t}
    /\ rows' = IF ok /\ t \in DOMAIN RtCatalog
               THEN [i \in 1..Len(changes(last)) |->
                        [table |-> t, op |-> changes(last)[i].op,
                         ct_id |-> changes(last)[i].ct_id,
                         status |-> changes(last)[i].status]]
               ELSE <<>>
    /\ ppc' = IF rows' # <<>> THEN "fanout" ELSE after_rows(active_tables')
    /\ UNCHANGED <<current_version, last, fanout>>
    /\ UNCHANGED <<engineVars, wsVars, dbVars>>

\* realtime.rs: poll_once, the loop over the subscriptions of the row's table:
\* the queues after it and, for each subscription, what was decided.
RECURSIVE fan_out_over(_, _, _, _, _)
fan_out_over(subs, uuids, op, record, acc) ==
    IF uuids = <<>> THEN acc
    ELSE LET uuid == Head(uuids)
         IN  IF uuid \notin DOMAIN subs
             THEN fan_out_over(subs, Tail(uuids), op, record, acc)
             ELSE LET sub == subs[uuid]
                      send == passes(sub, op, record)
                      room == Len(acc.q[sub.client_tx]) < QueueCap
                      seen == [uuid |-> uuid, sub |-> sub, op |-> op, record |-> record,
                               sent |-> send /\ room, room |-> room]
                  IN  fan_out_over(subs, Tail(uuids), op, record,
                                   [q |-> IF send
                                          THEN [acc.q EXCEPT ![sub.client_tx] =
                                                  try_send(@, Change(sub, op, record))]
                                          ELSE acc.q,
                                    seen |-> acc.seen \cup {seen}])
\* The loop over the engine's subscriptions.
fan_out(uuids, op, record, acc) == fan_out_over(all_subs, uuids, op, record, acc)

\* realtime.rs: poll_once, one row of the change query.
poll_fan_out ==
    /\ ppc = "fanout"
    /\ LET row == Head(rows)
           done == fan_out(table_subs[row.table], ChangeOp(row.op), record_of(row),
                           [q |-> queue, seen |-> {}])
       IN  /\ queue' = done.q
           /\ fanout' = done.seen
    /\ rows' = Tail(rows)
    /\ ppc' = IF rows' # <<>> THEN "fanout" ELSE after_rows(active_tables)
    /\ UNCHANGED <<active_tables, current_version, last>>
    /\ UNCHANGED <<engineVars, wpc, reply, sub_uuids, next_uuid, dbVars>>

\* The mutation of poll_store that stores the version the database has at the
\* time of the store.
poll_store_latest ==
    /\ ppc = "store"
    /\ last_version' = db_version
    /\ poll_return
    /\ UNCHANGED <<table_subs, all_subs, client_subs, engine, wsVars, dbVars>>

\* realtime.rs: poll_once, its last statement: the watermark becomes the
\* version read at the start of the tick.
poll_store ==
    /\ ppc = "store"
    /\ last_version' = current_version
    /\ poll_return
    /\ UNCHANGED <<table_subs, all_subs, client_subs, engine, wsVars, dbVars>>

InitRealtime ==
    /\ table_subs = [t \in DOMAIN RtCatalog |-> <<>>]
    /\ all_subs = <<>>
    /\ client_subs = [c \in WsClients |-> <<>>]
    /\ last_version = -1
    /\ engine = "new"
    /\ ppc = "sleep"
    /\ active_tables = {}
    /\ current_version = 0
    /\ last = 0
    /\ rows = <<>>
    /\ fanout = {}
    /\ wpc = [c \in WsClients |-> "open"]
    /\ reply = [c \in WsClients |-> NoReply]
    /\ sub_uuids = [c \in WsClients |-> [all |-> <<>>, i |-> 1]]
    /\ queue = [c \in WsClients |-> <<>>]
    /\ next_uuid = 1
    /\ db_row = NoRow
    /\ db_log = <<>>

NextRealtime ==
    \/ \E res \in {"number", "null", "error"} : init_version(res)
    \/ poll_once
    \/ \E res \in {"number", "none"} : poll_version(res)
    \/ \E t \in DOMAIN RtCatalog, ok \in BOOLEAN : poll_query(t, ok)
    \/ poll_fan_out
    \/ poll_store
    \/ \E c \in WsClients, m \in SubscribeMsgs : subscribe(c, m)
    \/ \E c \in WsClients, id \in SubIds : unsubscribe(c, id)
    \/ \E c \in WsClients : send_reply(c)
    \/ \E c \in WsClients : send_task(c)
    \/ \E c \in WsClients : remove_client_begin(c)
    \/ \E c \in WsClients : remove_client_next(c)
    \/ \E c \in WsClients : remove_client_return(c)
    \/ \E letter \in {"I", "U", "D"}, status \in Statuses : db_write(letter, status)
    \/ db_restore

\* ------------------------------------------------------------------ C3
\* A filter evaluated against a record: its column has a value in the record
\* and the value satisfies the operator.
evaluates_true(filter, record) ==
    /\ filter.column \in DOMAIN record
    /\ filter_matches(filter, record[filter.column])

\* C3: for every change record of a poll tick and every subscription on the
\* record's table whose queue has room, a change message is enqueued if and
\* only if the subscription's event kinds contain the record's operation and
\* every filter of its list evaluates to true against the record.
C3_EnqueuedIffMatches ==
    \A d \in fanout :
        d.room =>
            (d.sent <=>
                /\ d.op \in d.sub.events
                /\ d.sub.filter.some =>
                      \A i \in 1..Len(d.sub.filter.list) :
                          evaluates_true(d.sub.filter.list[i], d.record))

\* ------------------------------------------------------------------ C4
\* C4: once init_version has run, no step of the engine, of a client or of
\* the database lowers last_version.
C4_WatermarkMonotone == [][engine = "running" => last_version' >= last_version]_vars

\* A tick is at its version query while the database reports a version older
\* than the watermark.
C4_Witness ==
    /\ engine = "running"
    /\ ppc = "version"
    /\ last_version > 0
    /\ db_version < last_version

\* ------------------------------------------------------------------ C5
\* The subscriptions remove_client took for a client: those already removed
\* and those still registered.
Gone(c) == {u \in Range(sub_uuids[c].all) : u \notin DOMAIN all_subs}
Left(c) == {u \in Range(sub_uuids[c].all) : u \in DOMAIN all_subs}

\* C5 as stated: a poll tick about to fan a row out never finds some of a
\* disconnecting client's subscriptions removed and others still registered.
C5_RemovedAtomically ==
    \A c \in WsClients :
        ~(wpc[c] = "removing" /\ ppc = "fanout" /\ Gone(c) # {} /\ Left(c) # {})

\* C5 as amended: remove_client removes the subscriptions one at a time, and
\* once it has returned none of the client's subscriptions is left in
\* all_subs, table_subs or client_subs.
C5_NoneLeftAfterReturn ==
    \A c \in WsClients :
        wpc[c] = "closed" =>
            /\ client_subs[c] = <<>>
            /\ \A u \in DOMAIN all_subs : all_subs[u].client_tx # c
            /\ \A t \in DOMAIN table_subs : \A u \in Range(table_subs[t]) :
                   u \in DOMAIN all_subs /\ all_subs[u].client_tx # c

\* remove_client has returned after removing two subscriptions.
C5_Witness ==
    \E c \in WsClients :
        /\ wpc[c] = "closed"
        /\ Len(sub_uuids[c].all) = 2
        /\ Gone(c) = Range(sub_uuids[c].all)

\* ------------------------------------------------- DML requests and tx=rollback
\* Transactions a connection may be left in by batches that ended before their
\* COMMIT or ROLLBACK.
MaxTrancount == 2

RowKeys == {"k1", "k2"}
Absent == "absent"
Values == {"x", "y"}
EmptyTable == [k \in RowKeys |-> Absent]

\* The Prefer headers of the model, split at the commas as parse_prefer does.
NoPrefer == [some |-> FALSE, parts |-> <<>>]
Prefer(parts) == [some |-> TRUE, parts |-> parts]
PreferHeaders ==
    { NoPrefer,
      Prefer(<<"tx=rollback">>),
      Prefer(<<"tx=commit">>),
      Prefer(<<"return=minimal", " tx=rollback">>),
      Prefer(<<"tx=rollback", " tx=commit">>) }

\* str::trim on the parts of the model.
trim(part) ==
    CASE part = " tx=rollback" -> "tx=rollback"
      [] part = " tx=commit" -> "tx=commit"
      [] OTHER -> part

\* response.rs: parse_prefer: each part sets its preference, a later part
\* overriding an earlier one; the default is Commit.
RECURSIVE parse_parts(_, _)
parse_parts(parts, prefs) ==
    IF parts = <<>> THEN prefs
    ELSE LET part == trim(Head(parts))
         IN  parse_parts(Tail(parts),
                CASE part = "return=representation" -> [prefs EXCEPT !.return_mode = "Representation"]
                  [] part = "return=headers-only" -> [prefs EXCEPT !.return_mode = "HeadersOnly"]
                  [] part = "return=minimal" -> [prefs EXCEPT !.return_mode = "Minimal"]
                  [] part = "count=exact" -> [prefs EXCEPT !.count = TRUE]
                  [] part = "resolution=merge-duplicates" ->
                        [prefs EXCEPT !.resolution = "merge-duplicates"]
                  [] part = "tx=rollback" -> [prefs EXCEPT !.tx = "Rollback"]
                  [] part = "tx=commit" -> [prefs EXCEPT !.tx = "Commit"]
                  [] OTHER -> prefs)

PreferencesDefault ==
    [return_mode |-> "Representation", count |-> FALSE, resolution |-> "none", tx |-> "Commit"]

parse_prefer(prefer) ==
    IF prefer.some THEN parse_parts(prefer.parts, PreferencesDefault) ELSE PreferencesDefault

\* The mutation of tx_end that always commits.
tx_end_commit(prefs) == "COMMIT TRANSACTION"

\* handlers.rs: execute_dml_query, the statement that closes the transaction.
tx_end(prefs) ==
    IF prefs.tx = "Rollback" THEN "ROLLBACK TRANSACTION" ELSE "COMMIT TRANSACTION"

\* handlers.rs: execute_dml_query, the batch it sends.
dml_full_sql(sql, user, prefs) ==
    <<"SET NOCOUNT ON">> \o build_session_context_sql(user)
        \o <<"BEGIN TRANSACTION", sql, tx_end(prefs)>>

DmlKinds == {"INSERT", "UPSERT", "UPDATE", "DELETE"}
NoDml == [kind |-> "none", key |-> "k1", value |-> "x", prefer |-> NoPrefer, principal |-> NoUser]

\* handlers.rs: handle_post, handle_patch, handle_delete: the Prefer header is
\* parsed and execute_dml_query builds the batch and asks the pool for a
\* connection; when there is none the request fails before anything is sent.
execute_dml_query(kind, key, value, prefer, user, got) ==
    /\ dml_pc = "idle"
    /\ dml_req' = [kind |-> kind, key |-> key, value |-> value, prefer |-> prefer,
                   principal |-> user]
    /\ dml_batch' = dml_full_sql(kind, user, parse_prefer(prefer))
    /\ dml_before' = committed
    /\ dml_effect' = FALSE
    /\ dml_pc' = IF got THEN "run" ELSE "done"
    /\ dml_ip' = 1
    /\ dml_result' = IF got THEN "none" ELSE "pool_error"
    /\ UNCHANGED <<committed, working, trancount>>

\* ---- the server, running the batch statement by statement
Running(stmts) == dml_pc = "run" /\ dml_ip <= Len(dml_batch) /\ dml_batch[dml_ip] \in stmts

\* SET NOCOUNT ON and the session prologue: no effect on the table.
sql_set ==
    /\ Running({"SET NOCOUNT ON", "EXECUTE AS USER"})
    /\ dml_ip' = dml_ip + 1
    /\ UNCHANGED <<dml_pc, dml_req, dml_batch, dml_before, dml_result, dml_effect,
                   committed, working, trancount>>

sql_begin_transaction ==
    /\ Running({"BEGIN TRANSACTION"})
    /\ trancount' = trancount + 1
    /\ dml_ip' = dml_ip + 1
    /\ UNCHANGED <<dml_pc, dml_req, dml_batch, dml_before, dml_result, dml_effect,
                   committed, working>>

\* What the statement does to the rows when it succeeds.
applied(r, table) ==
    CASE r.kind \in {"INSERT", "UPSERT"} -> [table EXCEPT ![r.key] = r.value]
      [] r.kind = "UPDATE" ->
            IF table[r.key] = Absent THEN table ELSE [table EXCEPT ![r.key] = r.value]
      [] OTHER -> [table EXCEPT ![r.key] = Absent]

\* The DML statement.  It succeeds, or fails in one of the ways a statement
\* fails on the server: "statement" ends the statement and the batch goes on,
\* "batch" ends the batch and rolls the transaction back, "scope" ends the
\* batch and leaves the transaction open.  An INSERT of an existing key fails.
sql_dml(how) ==
    /\ Running(DmlKinds)
    /\ how = "ok" => ~(dml_req.kind = "INSERT" /\ working[dml_req.key] # Absent)
    /\ how = "scope" => trancount < MaxTrancount
    /\ working' = CASE how = "ok" -> applied(dml_req, working)
                    [] how = "batch" -> committed
                    [] OTHER -> working
    /\ committed' = IF how = "ok" /\ trancount = 0 THEN working' ELSE committed
    /\ trancount' = IF how = "batch" THEN 0 ELSE trancount
    /\ dml_effect' = (how = "ok" /\ working' # working)
    /\ dml_result' = IF how = "ok" THEN dml_result ELSE "sql_error"
    /\ dml_pc' = IF how \in {"batch", "scope"} THEN "done" ELSE "run"
    /\ dml_ip' = dml_ip + 1
    /\ UNCHANGED <<dml_req, dml_batch, dml_before>>

sql_rollback_transaction ==
    /\ Running({"ROLLBACK TRANSACTION"})
    /\ working' = committed
    /\ trancount' = 0
    /\ dml_ip' = dml_ip + 1
    /\ UNCHANGED <<dml_pc, dml_req, dml_batch, dml_before, dml_result, dml_effect,
                   committed>>

sql_commit_transaction ==
    /\ Running({"COMMIT TRANSACTION"})
    /\ committed' = IF trancount = 1 THEN working ELSE committed
    /\ trancount' = IF trancount > 0 THEN trancount - 1 ELSE 0
    /\ dml_ip' = dml_ip + 1
    /\ UNCHANGED <<dml_pc, dml_req, dml_batch, dml_before, dml_result, dml_effect,
                   working>>

\* The batch has run to its end: execute_dml_query returns the rows, or the
\* error a statement raised.
sql_done ==
    /\ dml_pc = "run"
    /\ dml_ip > Len(dml_batch)
    /\ dml_pc' = "done"
    /\ dml_result' = IF dml_result = "none" THEN "ok" ELSE dml_result
    /\ UNCHANGED <<dml_ip, dml_req, dml_batch, dml_before, dml_effect,
                   committed, working, trancount>>

\* handlers.rs: build_mutation_response, or the error response.
dml_respond ==
    /\ dml_pc = "done"
    /\ dml_pc' = "idle"
    /\ dml_ip' = 1
    /\ dml_req' = NoDml
    /\ dml_batch' = <<>>
    /\ dml_before' = committed
    /\ dml_result' = "none"
    /\ dml_effect' = FALSE
    /\ UNCHANGED <<committed, working, trancount>>

InitDml ==
    /\ dml_pc = "idle"
    /\ dml_ip = 1
    /\ dml_req = NoDml
    /\ dml_batch = <<>>
    /\ dml_before = EmptyTable
    /\ dml_result = "none"
    /\ dml_effect = FALSE
    /\ committed = EmptyTable
    /\ working = EmptyTable
    /\ trancount = 0

NextDml ==
    \/ \E kind \in DmlKinds, key \in RowKeys, value \in Values, prefer \in PreferHeaders,
          user \in Principals, got \in BOOLEAN :
            execute_dml_query(kind, key, value, prefer, user, got)
    \/ sql_set
    \/ sql_begin_transaction
    \/ \E how \in {"ok", "statement", "batch", "scope"} : sql_dml(how)
    \/ sql_rollback_transaction
    \/ sql_commit_transaction
    \/ sql_done
    \/ dml_respond

\* ------------------------------------------------------------------ C6
\* A request carries Prefer tx=rollback: one of the header's parts is
\* tx=rollback and none is tx=commit.
CarriesTxRollback(prefer) ==
    /\ prefer.some
    /\ \E i \in 1..Len(prefer.parts) : trim(prefer.parts[i]) = "tx=rollback"
    /\ \A i \in 1..Len(prefer.parts) : trim(prefer.parts[i]) # "tx=commit"

Bracketed(batch) ==
    \E i \in 1..Len(batch) :
        /\ batch[i] \in DmlKinds
        /\ i > 1 /\ batch[i - 1] = "BEGIN TRANSACTION"
        /\ i < Len(batch) /\ batch[i + 1] = "ROLLBACK TRANSACTION"

None == "none"
Secrets == {"s1"}
AnonRoles == {"web_anon"}

\* config.rs: AppConfig::load, the token mode: the configured one, else
\* JwtSecret when a secret is configured, else None.
auth_mode_of(auth_mode_str, jwt_secret) ==
    CASE auth_mode_str = "oidc" -> "Oidc"
      [] auth_mode_str = "jwt-secret" -> "JwtSecret"
      [] OTHER -> IF jwt_secret # None THEN "JwtSecret" ELSE "None"

\* Tokens: the secret they are signed with and whether they have expired;
\* Garbage and the empty string are no tokens at all.
Garbage == [key |-> "garbage", expired |-> FALSE]
Empty == [key |-> "", expired |-> FALSE]
Tokens ==
    { [key |-> "s1", expired |-> FALSE], [key |-> "s1", expired |-> TRUE],
      [key |-> "s2", expired |-> FALSE], Garbage, Empty }

\* Authorization headers: absent, or a scheme prefix followed by a token.
NoHeader == [some |-> FALSE, prefix |-> "", rest |-> Empty]
Headers ==
    {NoHeader} \cup
    [some : {TRUE}, prefix : {"Bearer ", "bearer ", "Basic ", ""}, rest : Tokens]

\* str::strip_prefix("Bearer "): the rest of the header, or None.
strip_prefix(header) == IF header.prefix = "Bearer " THEN header.rest ELSE Garbage
has_prefix(header) == header.prefix = "Bearer "

\* jsonwebtoken::decode with HS256 and validate_exp: the signature is the
\* secret's and the token has not expired.
decode(token, secret) == token.key = secret /\ ~token.expired

Ok(kind) == [ok |-> TRUE, kind |-> kind]
Err(kind) == [ok |-> FALSE, kind |-> kind]

\* The mutation of authenticate_hs256 that admits every request without a
\* header.
authenticate_hs256_admitting(header, config) ==
    IF config.jwt_secret = None THEN Ok("anonymous")
    ELSE IF ~header.some THEN Ok("anonymous")
    ELSE IF ~has_prefix(header) THEN Err("Unauthorized")
    ELSE IF decode(strip_prefix(header), config.jwt_secret) THEN Ok("claims")
    ELSE Err("Unauthorized")

\* auth.rs: authenticate_hs256.  Ok(None) is the anonymous request.
authenticate_hs256(header, config) ==
    IF config.jwt_secret = None THEN Ok("anonymous")
    ELSE IF ~header.some
         THEN IF config.anon_role # None THEN Ok("anonymous") ELSE Err("Unauthorized")
    ELSE IF ~has_prefix(header) THEN Err("Unauthorized")
    ELSE IF decode(strip_prefix(header), config.jwt_secret) THEN Ok("claims")
    ELSE Err("Unauthorized")

\* auth.rs: authenticate, the function every handler calls.
authenticate(header, config) ==
    CASE config.auth_mode = "None" -> Ok("anonymous")
      [] config.auth_mode = "JwtSecret" -> authenticate_hs256(header, config)
      [] OTHER -> Err("Internal")

NoConfig == [auth_mode |-> "None", jwt_secret |-> None, anon_role |-> None]
NoResult == [ok |-> FALSE, kind |-> "none"]

\* config.rs: AppConfig::load at startup.
load_config(auth_mode_str, jwt_secret, anon_role) ==
    /\ auth_pc = "boot"
    /\ auth_config' = [auth_mode |-> auth_mode_of(auth_mode_str, jwt_secret),
                       jwt_secret |-> jwt_secret, anon_role |-> anon_role]
    /\ auth_pc' = "serving"
    /\ UNCHANGED <<auth_header, auth_result>>

\* handlers.rs: a handler reads the Authorization header and authenticates.
handle_authenticate(header) ==
    /\ auth_pc = "serving"
    /\ auth_header' = header
    /\ auth_result' = authenticate(header, auth_config)
    /\ auth_pc' = "answered"
    /\ UNCHANGED auth_config

\* The next request.
auth_next ==
    /\ auth_pc = "answered"
    /\ auth_pc' = "serving"
    /\ auth_header' = NoHeader
    /\ auth_result' = NoResult
    /\ UNCHANGED auth_config

InitAuth ==
    /\ auth_pc = "boot"
    /\ auth_config = NoConfig
    /\ auth_header = NoHeader
    /\ auth_result = NoResult

NextAuth ==
    \/ \E m \in {None, "oidc", "jwt-secret", "hs256"}, k \in Secrets \cup {None},
          a \in AnonRoles \cup {None} : load_config(m, k, a)
    \/ \E header \in Headers : handle_authenticate(header)
    \/ auth_next

\* ------------------------------------------------------------------ C7
\* A header that is not of the form Bearer <token>.
Malformed(header) == header.some /\ (~has_prefix(header) \/ header.rest \in {Garbage, Empty})

\* The policy for missing and malformed headers.
MissingHeaderPolicy ==
    /\ ~auth_header.some =>
          auth_result = IF auth_config.anon_role # None
                        THEN Ok("anonymous") ELSE Err("Unauthorized")
    /\ Malformed(auth_header) => auth_result = Err("Unauthorized")

KeySets == {<<>>, <<"k1">>, <<"k2">>, <<"k1", "k2">>, <<"k2", "k1">>}

\* Tokens: whether the header decodes, its alg and kid, the key that signed it
\* and whether issuer, audience and expiry are in order.
OidcTokens ==
    [header_ok : {TRUE}, alg : {"RS256"}, kid : {None, "k1", "k2"},
     signer : {"k1", "k2"}, claims_ok : BOOLEAN]
    \cup { [header_ok |-> FALSE, alg |-> "RS256", kid |-> None, signer |-> "k1",
            claims_ok |-> TRUE],
           [header_ok |-> TRUE, alg |-> "HS256", kid |-> None, signer |-> "k1",
            claims_ok |-> TRUE] }
NoToken == [header_ok |-> FALSE, alg |-> "none", kid |-> None, signer |-> "k1",
            claims_ok |-> FALSE]

\* The mutation of fetch_error that reports a failed fetch as Unauthorized.
fetch_error_unauthorized == Err("Unauthorized")

\* auth.rs: fetch_jwks: a failed request or a failed parse is Error::Internal.
fetch_error == Err("Internal")

\* auth.rs: try_validate after get_keys: the key with the token's kid, or the
\* first key when the token names none, must verify the token.
verify(token, keys) ==
    LET found == IF token.kid # None
                 THEN \E i \in 1..Len(keys) : keys[i] = token.kid
                 ELSE keys # <<>>
        jwk == IF token.kid # None THEN token.kid ELSE keys[1]
    IN  IF found /\ jwk = token.signer /\ token.claims_ok
        THEN Ok("claims") ELSE Err("Unauthorized")

\* auth.rs: validate, up to its first try_validate: a header that does not
\* decode and an alg other than RS256/384/512 are Unauthorized at once.
validate(token) ==
    /\ oidc_pc = "idle"
    /\ oidc_token' = token
    /\ oidc_trace' = <<>>
    /\ IF token.header_ok /\ token.alg \in {"RS256", "RS384", "RS512"}
       THEN oidc_pc' = "try" /\ oidc_result' = NoResult
       ELSE oidc_pc' = "done" /\ oidc_result' = Err("Unauthorized")
    /\ UNCHANGED <<cache, jwks>>

\* auth.rs: try_validate: get_keys fetches the key set when the cached one is
\* older than 24 hours, and the fetch may fail; then the token is verified.
\* The first failure, of whatever kind, sends validate to refresh_keys; the
\* result of the second try is the result of validate.
try_validate(fetch_ok) ==
    /\ oidc_pc = "try"
    /\ cache' = IF cache.stale /\ fetch_ok THEN [keys |-> jwks, stale |-> FALSE] ELSE cache
    /\ LET res == IF cache.stale /\ ~fetch_ok THEN fetch_error
                  ELSE verify(oidc_token, cache'.keys)
           first == oidc_trace = <<>>
       IN  /\ oidc_trace' = Append(oidc_trace, IF res.ok THEN "try_ok" ELSE "try_err")
           /\ IF first /\ ~res.ok
              THEN oidc_pc' = "refresh" /\ oidc_result' = oidc_result
              ELSE oidc_pc' = "done" /\ oidc_result' = res
    /\ UNCHANGED <<jwks, oidc_token>>

\* auth.rs: refresh_keys, called by validate with `?`: a failed fetch is the
\* result of validate.
refresh_keys(fetch_ok) ==
    /\ oidc_pc = "refresh"
    /\ IF fetch_ok
       THEN /\ cache' = [keys |-> jwks, stale |-> FALSE]
            /\ oidc_pc' = "try"
            /\ oidc_result' = oidc_result
       ELSE /\ cache' = cache
            /\ oidc_pc' = "done"
            /\ oidc_result' = fetch_error
    /\ oidc_trace' = Append(oidc_trace, IF fetch_ok THEN "refresh_ok" ELSE "refresh_err")
    /\ UNCHANGED <<jwks, oidc_token>>

\* authenticate_async returns to its caller.
oidc_respond ==
    /\ oidc_pc = "done"
    /\ oidc_pc' = "idle"
    /\ oidc_token' = NoToken
    /\ oidc_trace' = <<>>
    /\ oidc_result' = NoResult
    /\ UNCHANGED <<cache, jwks>>

\* The issuer rotates its keys.
rotate_keys(keys) ==
    /\ jwks # keys
    /\ jwks' = keys
    /\ UNCHANGED <<cache, oidc_pc, oidc_token, oidc_trace, oidc_result>>

\* 24 hours pass between two requests.
cache_expires ==
    /\ oidc_pc = "idle"
    /\ ~cache.stale
    /\ cache' = [cache EXCEPT !.stale = TRUE]
    /\ UNCHANGED <<jwks, oidc_pc, oidc_token, oidc_trace, oidc_result>>

\* auth.rs: discover has fetched the issuer's key set.
InitOidc ==
    /\ cache = [keys |-> <<"k1">>, stale |-> FALSE]
    /\ jwks = <<"k1">>
    /\ oidc_pc = "idle"
    /\ oidc_token = NoToken
    /\ oidc_trace = <<>>
    /\ oidc_result = NoResult

NextOidc ==
    \/ \E token \in OidcTokens : validate(token)
    \/ \E fetch_ok \in BOOLEAN : try_validate(fetch_ok)
    \/ \E fetch_ok \in BOOLEAN : refresh_keys(fetch_ok)
    \/ oidc_respond
    \/ \E keys \in KeySets : rotate_keys(keys)
    \/ cache_expires

\* ------------------------------------------------------------------ C8
HeaderAccepted == oidc_token.header_ok /\ oidc_token.alg \in {"RS256", "RS384", "RS512"}

\* C8 as stated: a first attempt that succeeds does no forced refresh; one
\* that fails is followed by exactly one refresh and, unless the token is then
\* verified by the one retry, by Unauthorized, also when the refresh fails.
C8_RefreshOnceElseUnauthorized ==
    (oidc_pc = "done" /\ HeaderAccepted) =>
        \/ oidc_trace = <<"try_ok">> /\ oidc_result = Ok("claims")
        \/ oidc_trace = <<"try_err", "refresh_ok", "try_ok">> /\ oidc_result = Ok("claims")
        \/ oidc_trace = <<"try_err", "refresh_ok", "try_err">>
              /\ oidc_result = Err("Unauthorized")
        \/ oidc_trace = <<"try_err", "refresh_err">> /\ oidc_result = Err("Unauthorized")

\* C8 as amended: the same, except that a failed refresh ends validate with
\* an internal error and without a retry.
C8_RefreshOnceElseError ==
    (oidc_pc = "done" /\ HeaderAccepted) =>
        \/ oidc_trace = <<"try_ok">> /\ oidc_result = Ok("claims")
        \/ oidc_trace = <<"try_err", "refresh_ok", "try_ok">> /\ oidc_result = Ok("claims")
        \/ oidc_trace = <<"try_err", "refresh_ok", "try_err">>
              /\ oidc_result = Err("Unauthorized")
        \/ oidc_trace = <<"try_err", "refresh_err">> /\ oidc_result = Err("Internal")

\* A token signed with a key the cache did not have has been verified after
\* the refresh.
C8_Witness ==
    /\ oidc_pc = "done"
    /\ oidc_trace = <<"try_err", "refresh_ok", "try_ok">>
    /\ oidc_result = Ok("claims")
    /\ oidc_token.kid = "k2"

\* ------------------------------------------------------------ catalog reload
\* main.rs 84-108 (the SIGHUP task), schema.rs 185-442 (load_schema) and the
\* catalog read guard of the four table handlers in handlers.rs.

MaxDdl == 1
Handlers == {"h1"}
Methods == {"GET", "POST", "PATCH", "DELETE"}
TableNames == {"orders", "notes"}
NoTable == [absent |-> TRUE]
EmptyMap == [t \in {} |-> t]

\* The statements of load_schema in order: pool.get, then the six queries.
Steps == <<"get", "tables", "columns", "primary_key", "foreign_keys",
           "unique_constraints", "change_tracking">>

\* What the database holds at a generation: DDL adds the table notes; change
\* tracking is enabled on orders.
DbTables(g) == IF g = 1 THEN {"orders"} ELSE TableNames
DbTracked == {"orders"}

\* schema.rs 211-224: the TableInfo query 1 inserts, every list empty (0) and
\* change_tracking_enabled false.  A loaded list carries the generation it was
\* read at.
TableInfo(name) ==
    [name |-> name, columns |-> 0, primary_key |-> 0, foreign_keys |-> 0,
     unique_constraints |-> 0, change_tracking_enabled |-> FALSE]

\* schema.rs 228-411: queries 2 to 5 fill one list of every table of the map.
fill(map, part, g) == [t \in DOMAIN map |-> [map[t] EXCEPT ![part] = g]]

\* schema.rs 425-432: query 6 marks the tables the database tracks.
mark_tracked(map) ==
    [t \in DOMAIN map |->
        [map[t] EXCEPT !.change_tracking_enabled = t \in DbTracked]]

\* The catalog a load_schema that ran every query at generation g returns.
Loaded(g) ==
    mark_tracked(fill(fill(fill(fill([t \in DbTables(g) |-> TableInfo(t)],
        "columns", g), "primary_key", g), "foreign_keys", g),
        "unique_constraints", g))

\* schema.rs get_table
get_table(cat, name) == IF name \in DOMAIN cat THEN cat[name] ELSE NoTable

\* DDL on the database, at any time.
db_ddl ==
    /\ db_gen <= MaxDdl
    /\ db_gen' = db_gen + 1
    /\ UNCHANGED <<schema, guards, reload_pc, step, tables, prev, failed_at,
                   h_pc, h_method, h_table>>

\* main.rs 94-96: hup.recv() returns and load_schema is called.
sighup ==
    /\ reload_pc = "idle"
    /\ reload_pc' = "load"
    /\ step' = 1
    /\ tables' = EmptyMap
    /\ prev' = schema
    /\ failed_at' = "none"
    /\ UNCHANGED <<schema, guards, db_gen, h_pc, h_method, h_table>>

\* schema.rs 186-411: pool.get and queries 1 to 5; an error returns Err with `?`.
load_schema_step(ok) ==
    /\ reload_pc = "load"
    /\ step <= 6
    /\ IF ok
         THEN /\ tables' = CASE Steps[step] = "get" -> tables
                             [] Steps[step] = "tables" ->
                                    [t \in DbTables(db_gen) |-> TableInfo(t)]
                             [] OTHER -> fill(tables, Steps[step], db_gen)
              /\ step' = step + 1
              /\ UNCHANGED <<reload_pc, failed_at>>
         ELSE /\ reload_pc' = "err"
              /\ failed_at' = Steps[step]
              /\ UNCHANGED <<tables, step>>
    /\ UNCHANGED <<schema, guards, prev, db_gen, h_pc, h_method, h_table>>

\* schema.rs 413-441: query 6; its error is skipped and load_schema returns Ok.
load_schema_change_tracking(ok) ==
    /\ reload_pc = "load"
    /\ step = 7
    /\ tables' = IF ok THEN mark_tracked(tables) ELSE tables
    /\ failed_at' = IF ok THEN "none" ELSE Steps[step]
    /\ reload_pc' = "ok"
    /\ UNCHANGED <<schema, guards, step, prev, db_gen, h_pc, h_method, h_table>>

\* A reload that installs what load_schema had built when it failed.
reload_failed_installing ==
    /\ reload_pc = "err"
    /\ reload_pc' = "idle"
    /\ schema' = tables
    /\ UNCHANGED <<guards, step, tables, prev, failed_at, db_gen,
                   h_pc, h_method, h_table>>

\* main.rs 102-104: the Err arm logs and goes back to hup.recv().
reload_failed ==
    /\ reload_pc = "err"
    /\ reload_pc' = "idle"
    /\ UNCHANGED <<schema, guards, step, tables, prev, failed_at, db_gen,
                   h_pc, h_method, h_table>>

\* main.rs 98: sighup_schema.write().await is queued behind the read guards.
reload_write ==
    /\ reload_pc = "ok"
    /\ reload_pc' = "write"
    /\ UNCHANGED <<schema, guards, step, tables, prev, failed_at, db_gen,
                   h_pc, h_method, h_table>>

\* main.rs 98-100: the write guard is granted once no read guard is held, the
\* catalog is replaced and the guard dropped.
reload_install ==
    /\ reload_pc = "write"
    /\ guards = {}
    /\ schema' = tables
    /\ reload_pc' = "idle"
    /\ UNCHANGED <<guards, step, tables, prev, failed_at, db_gen,
                   h_pc, h_method, h_table>>

\* handlers.rs 39, 214, 287, 332: state.schema.read().await.  The lock is fair:
\* a read queued behind a waiting write is not granted.
handle_read(h, method) ==
    /\ h_pc[h] = "idle"
    /\ reload_pc # "write"
    /\ guards' = guards \cup {h}
    /\ h_pc' = [h_pc EXCEPT ![h] = "resolve"]
    /\ h_method' = [h_method EXCEPT ![h] = method]
    /\ UNCHANGED <<schema, reload_pc, step, tables, prev, failed_at, db_gen, h_table>>

\* handlers.rs 40-42 (handle_get): the table is borrowed from the guard, which
\* lives to the end of the function.  215-219, 288-292, 333-337 (handle_post,
\* handle_patch, handle_delete): the table is cloned and the guard dropped.
\* A table that is not in the catalog returns NotFound.
handle_resolve(h, name) ==
    /\ h_pc[h] = "resolve"
    /\ LET table == get_table(schema, name) IN
         IF table = NoTable
           THEN /\ h_pc' = [h_pc EXCEPT ![h] = "idle"]
                /\ guards' = guards \ {h}
                /\ UNCHANGED h_table
           ELSE /\ h_pc' = [h_pc EXCEPT ![h] = "pool"]
                /\ h_table' = [h_table EXCEPT ![h] = table]
                /\ guards' = IF h_method[h] = "GET" THEN guards ELSE guards \ {h}
    /\ UNCHANGED <<schema, reload_pc, step, tables, prev, failed_at, db_gen, h_method>>

\* handlers.rs 100, execute_dml_query 733: pool.get().await returns a connection.
handle_pool_get(h) ==
    /\ h_pc[h] = "pool"
    /\ h_pc' = [h_pc EXCEPT ![h] = "query"]
    /\ UNCHANGED <<schema, guards, reload_pc, step, tables, prev, failed_at,
                   db_gen, h_method, h_table>>

\* handlers.rs 139-153: a GET with embeds goes on to handle_embeds, which reads
\* the related tables through the same guard and runs one query per embed.
handle_embeds(h) ==
    /\ h_pc[h] = "query"
    /\ h_method[h] = "GET"
    /\ h_pc' = [h_pc EXCEPT ![h] = "embeds"]
    /\ UNCHANGED <<schema, guards, reload_pc, step, tables, prev, failed_at,
                   db_gen, h_method, h_table>>

\* The handler returns its response; what it still holds is dropped.
handle_return(h) ==
    /\ h_pc[h] \in {"query", "embeds"}
    /\ h_pc' = [h_pc EXCEPT ![h] = "idle"]
    /\ h_table' = [h_table EXCEPT ![h] = NoTable]
    /\ guards' = guards \ {h}
    /\ UNCHANGED <<schema, reload_pc, step, tables, prev, failed_at, db_gen, h_method>>

InitCatalog ==
    /\ db_gen = 1
    /\ schema = Loaded(1)
    /\ guards = {}
    /\ reload_pc = "idle"
    /\ step = 1
    /\ tables = Loaded(1)
    /\ prev = Loaded(1)
    /\ failed_at = "none"
    /\ h_pc = [h \in Handlers |-> "idle"]
    /\ h_method = [h \in Handlers |-> "GET"]
    /\ h_table = [h \in Handlers |-> NoTable]

NextCatalog ==
    \/ db_ddl
    \/ sighup
    \/ \E ok \in BOOLEAN : load_schema_step(ok)
    \/ \E ok \in BOOLEAN : load_schema_change_tracking(ok)
    \/ reload_failed
    \/ reload_write
    \/ reload_install
    \/ \E h \in Handlers, method \in Methods : handle_read(h, method)
    \/ \E h \in Handlers, name \in TableNames : handle_resolve(h, name)
    \/ \E h \in Handlers : handle_pool_get(h)
    \/ \E h \in Handlers : handle_embeds(h)
    \/ \E h \in Handlers : handle_return(h)

\* A TableInfo whose four lists have all been loaded.
Whole(info) ==
    /\ info.columns # 0
    /\ info.primary_key # 0
    /\ info.foreign_keys # 0
    /\ info.unique_constraints # 0

\* C9 as stated: after a reload in which a step of load_schema failed, whichever
\* step it was, the visible catalog is the one that was visible before the
\* reload; and every table of the visible catalog is whole.
C9_AnyFailureKeepsCatalog ==
    /\ (reload_pc = "idle" /\ failed_at # "none") => schema = prev
    /\ \A t \in DOMAIN schema : Whole(schema[t])

\* C9: a reload in which pool.get or one of the first five queries failed leaves
\* the previous catalog visible; a failure of the sixth, change-tracking query
\* does not fail the reload, which then installs the newly loaded catalog with
\* no table marked as change-tracked.  Until the install the previous catalog
\* stays visible, the install replaces it in one step by the map load_schema
\* returned, and neither the visible catalog nor a table a handler has resolved
\* is ever missing one of its lists.
C9_WholeOrPrevious ==
    /\ reload_pc # "idle" => schema = prev
    /\ (reload_pc = "idle" /\ failed_at \notin {"none", "change_tracking"})
           => schema = prev
    /\ (reload_pc = "idle" /\ failed_at = "change_tracking")
           => /\ schema = tables
              /\ \A t \in DOMAIN schema : ~schema[t].change_tracking_enabled
    /\ (reload_pc = "idle" /\ failed_at = "none") => schema = tables
    /\ \A t \in DOMAIN schema : Whole(schema[t])
    /\ \A h \in Handlers : h_table[h] # NoTable => Whole(h_table[h])

\* A reload failed at the foreign-key query after the database had gained a
\* table: load_schema had built a map holding the new table without all of its
\* lists, the visible catalog does not hold it, and a request is running.
C9_Witness ==
    /\ reload_pc = "idle"
    /\ failed_at = "foreign_keys"
    /\ "notes" \in DOMAIN tables
    /\ ~Whole(tables["notes"])
    /\ "notes" \notin DOMAIN schema
    /\ \E h \in Handlers : h_pc[h] = "query"

\* C10: a handler that is waiting for a pool connection or executing a query
\* (its own or its embeds') holds no read guard on the catalog, so a reload
\* waiting for the write lock never waits for such a handler.
C10_GuardDroppedBeforeQuery ==
    \A h \in Handlers : h_pc[h] \in {"pool", "query", "embeds"} => h \notin guards

\* ------------------------------------------------------------ SQL generation
\* query.rs (the statement builders), handlers.rs (handle_rpc, handle_embeds,
\* build_filters_from_params) and auth.rs (build_session_sql).
\*
\* A String is a sequence of pieces.  A name or a value is a sequence of
\* pieces each holding a run of ordinary characters or one of the characters
\* "]", "'", "*", "%"; SQL text keeps for every piece where it came from: the
\* program's own text, a name (of a table, column, procedure or argument), a
\* value, or a placeholder @Pn.

Text(str) == <<[c |-> str, o |-> "text", n |-> 0]>>
Param(num) == <<[c |-> "@P", o |-> "param", n |-> num]>>
Name(str) == [i \in 1..Len(str) |-> [c |-> str[i], o |-> "name", n |-> 0]]
Value(str) == [i \in 1..Len(str) |-> [c |-> str[i], o |-> "value", n |-> 0]]

\* str::replace(from, to) for a one-character pattern.
RECURSIVE replace(_, _, _)
replace(str, from, to) ==
    IF str = <<>> THEN <<>>
    ELSE (IF Head(str) = from THEN to ELSE <<Head(str)>>) \o replace(Tail(str), from, to)

\* query.rs 620-623
escape_ident(name) == replace(name, "]", <<"]", "]">>)

\* [String]::join(sep)
RECURSIVE join(_, _)
join(parts, sep) ==
    CASE parts = <<>> -> <<>>
      [] Len(parts) = 1 -> parts[1]
      [] OTHER -> parts[1] \o Text(sep) \o join(Tail(parts), sep)

\* format!("[{}]", escape_ident(name))
bracketed(name) == Text("[") \o Name(escape_ident(name)) \o Text("]")

\* How SQL Server reads the text: "[" opens a delimited identifier, inside it
\* "]]" is one character of the identifier and a single "]" closes it.  True
\* when every piece that came from a name is read as part of a delimited
\* identifier and no piece that came from a value is in the text.
RECURSIVE NamesDelimited(_, _, _)
NamesDelimited(sql, i, inside) ==
    CASE i > Len(sql) -> TRUE
      [] sql[i].o = "value" -> FALSE
      [] ~inside ->
            /\ sql[i].o # "name"
            /\ NamesDelimited(sql, i + 1, sql[i].c = "[")
      [] sql[i].c = "]" ->
            IF i < Len(sql) /\ sql[i + 1].c = "]"
            THEN NamesDelimited(sql, i + 2, TRUE)
            ELSE NamesDelimited(sql, i + 1, FALSE)
      [] OTHER -> NamesDelimited(sql, i + 1, TRUE)

BuiltQuery(sql, params) == [sql |-> sql, params |-> params, err |-> "none"]
BadRequest == [sql |-> <<>>, params |-> <<>>, err |-> "BadRequest"]
NoCall == [fn |-> "none"]

\* handlers.rs 375-390: handle_rpc, the EXEC statement; args is the body's map
\* as its entries in iteration order.
rpc_sql(proc_name, args) ==
    LET safe_proc == replace(replace(proc_name, "'", <<"'", "'">>), "]", <<"]", "]">>)
        sql_parts == [i \in 1..Len(args) |->
                         Text("@") \o Name(replace(args[i].key, "]", <<"]", "]">>))
                             \o Text(" = ") \o Param(i)]
        param_values == [i \in 1..Len(args) |-> args[i].val]
    IN  BuiltQuery(
            IF sql_parts = <<>>
            THEN Text("EXEC ") \o Text("[") \o Name(safe_proc) \o Text("]")
            ELSE Text("EXEC ") \o Text("[") \o Name(safe_proc) \o Text("]") \o Text(" ")
                     \o join(sql_parts, ", "),
            param_values)

\* filters.rs 40-46: FilterNode
Condition(filter) == [node |-> "condition", filter |-> filter, nodes |-> <<>>]
And(nodes) == [node |-> "and", filter |-> [none |-> TRUE], nodes |-> nodes]
Or(nodes) == [node |-> "or", filter |-> [none |-> TRUE], nodes |-> nodes]

\* What a builder of a clause returns: the clause, the parameter vector after
\* it, and whether it failed.
Clause(sql, params) == [sql |-> sql, params |-> params, ok |-> TRUE]
ClauseErr == [sql |-> <<>>, params |-> <<>>, ok |-> FALSE]

\* query.rs 604-618: filter_value_single, <<>> when it is an error.
filter_value_single(val) ==
    CASE val.kind = "single" -> <<val.s>>
      [] Len(val.items) = 1 -> <<val.items[1]>>
      [] OTHER -> <<>>

not_prefix(filter) == IF filter.negated THEN Text("NOT ") ELSE <<>>

\* query.rs 500-542, 592-599: the operators that bind one value.
Comparison == [eq |-> " = ", neq |-> " <> ", gt |-> " > ", gte |-> " >= ", lt |-> " < ",
               lte |-> " <= ", like |-> " LIKE ", ilike |-> " LIKE "]

\* query.rs 491-602: build_single_filter
build_single_filter(filter, params, offset) ==
    LET col == bracketed(filter.column)
        single == filter_value_single(filter.value)
        pushed == params \o single
        place == Len(pushed) + offset
    IN  CASE filter.operator \in DOMAIN Comparison ->
                IF single = <<>> THEN ClauseErr
                ELSE Clause(not_prefix(filter) \o Text("(") \o col
                                \o Text(Comparison[filter.operator]) \o Param(place)
                                \o Text(")"), pushed)
          [] filter.operator = "fts" ->
                IF single = <<>> THEN ClauseErr
                ELSE Clause(not_prefix(filter) \o Text("CONTAINS(") \o col \o Text(", ")
                                \o Param(place) \o Text(")"), pushed)
          [] filter.operator = "in" ->
                IF filter.value.kind # "list" THEN ClauseErr
                ELSE LET items == filter.value.items
                         placeholders ==
                             [i \in 1..Len(items) |-> Param(Len(params) + i + offset)]
                     IN  Clause(not_prefix(filter) \o Text("(") \o col \o Text(" IN (")
                                    \o join(placeholders, ", ") \o Text("))"),
                                params \o items)
          [] filter.operator = "is" ->
                IF single = <<>> THEN ClauseErr
                ELSE LET val == to_lowercase(single[1]) IN
                     CASE val = "null" ->
                            Clause(col \o Text(IF filter.negated THEN " IS NOT NULL"
                                               ELSE " IS NULL"), params)
                       [] val = "true" ->
                            Clause(col \o Text(IF filter.negated THEN " <> 1" ELSE " = 1"),
                                   params)
                       [] val = "false" ->
                            Clause(col \o Text(IF filter.negated THEN " <> 0" ELSE " = 0"),
                                   params)
                       [] OTHER -> ClauseErr
          [] OTHER -> ClauseErr

\* query.rs 455-488: build_filter_node, and the fold over the children that
\* its And and Or arms and build_where_clause_with_offset share: each child is
\* built with the vector the one before left, the empty clauses are dropped.
RECURSIVE build_filter_node(_, _, _), build_nodes(_, _, _, _)
build_nodes(nodes, params, offset, parts) ==
    IF nodes = <<>> THEN [parts |-> parts, params |-> params, ok |-> TRUE]
    ELSE LET clause == build_filter_node(Head(nodes), params, offset) IN
         IF ~clause.ok THEN [parts |-> <<>>, params |-> <<>>, ok |-> FALSE]
         ELSE build_nodes(Tail(nodes), clause.params, offset,
                          IF clause.sql = <<>> THEN parts ELSE Append(parts, clause.sql))
build_filter_node(node, params, offset) ==
    IF node.node = "condition" THEN build_single_filter(node.filter, params, offset)
    ELSE LET children == build_nodes(node.nodes, params, offset, <<>>) IN
         CASE ~children.ok -> ClauseErr
           [] children.parts = <<>> -> Clause(<<>>, children.params)
           [] OTHER -> Clause(Text("(")
                                  \o join(children.parts,
                                          IF node.node = "and" THEN " AND " ELSE " OR ")
                                  \o Text(")"), children.params)

\* A WHERE generator that numbers its placeholders from 1 whatever the offset.
build_where_clause_from_one(filters, params, offset) ==
    LET top == build_nodes(filters, params, 0, <<>>) IN
    IF top.ok THEN Clause(join(top.parts, " AND "), top.params) ELSE ClauseErr

\* query.rs 437-452: build_where_clause_with_offset
build_where_clause_with_offset(filters, params, offset) ==
    LET top == build_nodes(filters, params, offset, <<>>) IN
    IF top.ok THEN Clause(join(top.parts, " AND "), top.params) ELSE ClauseErr

\* query.rs 428-434
build_where_clause(filters, params) == build_where_clause_with_offset(filters, params, 0)

\* select.rs 11-31: SelectNode and EmbedSelect; fk_hint is <<>> or <<hint>>.
Star == [node |-> "star", name |-> <<>>, fk_hint |-> <<>>, columns |-> <<>>]
Column(name) == [node |-> "column", name |-> name, fk_hint |-> <<>>, columns |-> <<>>]
Embed(name, fk_hint, columns) ==
    [node |-> "embed", name |-> name, fk_hint |-> fk_hint, columns |-> columns]

\* select.rs 132-159
select_columns(nodes) ==
    LET cols == SelectSeq(nodes, LAMBDA x : x.node = "column")
    IN  [i \in 1..Len(cols) |-> cols[i].name]
has_star(nodes) == \E i \in 1..Len(nodes) : nodes[i].node = "star"
select_embeds(nodes) == SelectSeq(nodes, LAMBDA x : x.node = "embed")

\* schema.rs 52-55: TableInfo::full_name, the catalog's names as they are.
full_name(table) ==
    Text("[") \o Name(table.schema) \o Text("]") \o Text(".")
        \o Text("[") \o Name(table.name) \o Text("]")

\* A number formatted into the text (limit, offset).
Number(num) == <<[c |-> "0", o |-> "number", n |-> num]>>

\* The column lists of the builders: "[c1], [c2]" with a prefix before each.
column_list(cols, prefix) ==
    join([i \in 1..Len(cols) |-> Text(prefix) \o bracketed(cols[i])], ", ")

\* query.rs 390-425: build_column_list
build_column_list(table, nodes) ==
    LET explicit_cols == select_columns(nodes) IN
    CASE nodes = <<>> \/ has_star(nodes) ->
            column_list(table.columns
                            \o SelectSeq(explicit_cols,
                                         LAMBDA x : x \notin Range(table.columns)), "")
      [] explicit_cols = <<>> -> Text("*")
      [] OTHER -> column_list(explicit_cols, "")

\* query.rs 111-140: one ORDER BY item
order_part(o) ==
    (CASE o.nulls = "first" -> Text("CASE WHEN ") \o bracketed(o.column)
                                   \o Text(" IS NULL THEN 0 ELSE 1 END, ")
       [] o.nulls = "last" -> Text("CASE WHEN ") \o bracketed(o.column)
                                  \o Text(" IS NULL THEN 1 ELSE 0 END, ")
       [] OTHER -> <<>>)
        \o bracketed(o.column) \o Text(" ") \o Text(o.direction)

\* The WHERE clause a builder appends when it has filters.
where_part(where_clause) ==
    IF where_clause.sql = <<>> THEN <<>> ELSE Text(" WHERE ") \o where_clause.sql

\* query.rs 79-168: build_select; limit and offset are <<>> or <<number>>.
build_select(table, select_nodes, filters, order, limit, offset, count_only) ==
    LET columns == IF count_only THEN Text("COUNT(*) AS ") \o Text("[") \o Text("count")
                                          \o Text("]")
                   ELSE build_column_list(table, select_nodes)
        where_clause == build_where_clause(filters, <<>>)
        head == Text("SELECT ") \o columns \o Text(" FROM ") \o full_name(table)
                    \o where_part(where_clause)
        order_by ==
            CASE order # <<>> ->
                    Text(" ORDER BY ")
                        \o join([i \in 1..Len(order) |-> order_part(order[i])], ", ")
              [] limit = <<>> /\ offset = <<>> -> <<>>
              [] table.primary_key # <<>> ->
                    Text(" ORDER BY ")
                        \o join([i \in 1..Len(table.primary_key) |->
                                    bracketed(table.primary_key[i]) \o Text(" ASC")], ", ")
              [] OTHER -> Text(" ORDER BY (SELECT NULL)")
        paging ==
            CASE offset # <<>> ->
                    Text(" OFFSET ") \o Number(offset[1]) \o Text(" ROWS")
                        \o (IF limit # <<>>
                            THEN Text(" FETCH NEXT ") \o Number(limit[1]) \o Text(" ROWS ONLY")
                            ELSE <<>>)
              [] limit # <<>> ->
                    Text(" OFFSET 0 ROWS FETCH NEXT ") \o Number(limit[1])
                        \o Text(" ROWS ONLY")
              [] OTHER -> <<>>
    IN  CASE ~where_clause.ok -> BadRequest
          [] count_only -> BuiltQuery(head, where_clause.params)
          [] OTHER -> BuiltQuery(head \o order_by \o paging, where_clause.params)

\* query.rs 171-218: build_insert; the values are bound by the caller.
build_insert(table, columns, value_count) ==
    IF columns = <<>> THEN BadRequest
    ELSE LET group(g) ==
                 Text("(")
                     \o join([i \in 1..Len(columns) |-> Param((g - 1) * Len(columns) + i)],
                             ", ")
                     \o Text(")")
         IN  BuiltQuery(Text("INSERT INTO ") \o full_name(table) \o Text(" (")
                            \o column_list(columns, "") \o Text(") OUTPUT ")
                            \o column_list(table.columns, "inserted.") \o Text(" VALUES ")
                            \o join([g \in 1..value_count |-> group(g)], ", "),
                        <<>>)

\* query.rs 266: eq_ignore_ascii_case; the names of the model are lower case.
eq_ignore_ascii_case(a, b) == a = b

\* query.rs 222-318: build_upsert; _value_count is not read, the source of the
\* MERGE is one SELECT of @P1..@Pk.
build_upsert(table, columns, value_count) ==
    LET match_cols == IF table.primary_key # <<>> THEN table.primary_key
                      ELSE IF table.unique_constraints # <<>>
                           THEN Head(table.unique_constraints)
                           ELSE <<>>
        col_list == column_list(columns, "")
        source_cols == [i \in 1..Len(columns) |-> Param(i)]
        pair(c) == Text("target.") \o bracketed(c) \o Text(" = ") \o Text("source.")
                       \o bracketed(c)
        on_clause == [i \in 1..Len(match_cols) |-> pair(match_cols[i])]
        updated == SelectSeq(columns,
                             LAMBDA c : ~\E i \in 1..Len(match_cols) :
                                            eq_ignore_ascii_case(match_cols[i], c))
        update_cols == [i \in 1..Len(updated) |-> pair(updated[i])]
    IN  CASE columns = <<>> -> BadRequest
          [] match_cols = <<>> -> BadRequest
          [] OTHER ->
                BuiltQuery(
                    Text("MERGE ") \o full_name(table) \o Text(" AS target USING (SELECT ")
                        \o join([i \in 1..Len(columns) |->
                                    source_cols[i] \o Text(" AS ") \o bracketed(columns[i])],
                                ", ")
                        \o Text(") AS source (") \o col_list \o Text(") ON ")
                        \o join(on_clause, " AND ") \o Text(" ")
                        \o (IF update_cols # <<>>
                            THEN Text("WHEN MATCHED THEN UPDATE SET ")
                                     \o join(update_cols, ", ") \o Text(" ")
                            ELSE <<>>)
                        \o Text("WHEN NOT MATCHED THEN INSERT (") \o col_list
                        \o Text(") VALUES (") \o column_list(columns, "source.")
                        \o Text(") OUTPUT ") \o column_list(table.columns, "inserted.")
                        \o Text(";"),
                    <<>>)

\* query.rs 321-362: build_update
build_update(table, columns, filters) ==
    LET set_clauses == [i \in 1..Len(columns) |->
                           bracketed(columns[i]) \o Text(" = ") \o Param(i)]
        param_offset == Len(columns)
        where_clause == build_where_clause_with_offset(filters, <<>>, param_offset)
    IN  CASE columns = <<>> -> BadRequest
          [] ~where_clause.ok -> BadRequest
          [] OTHER ->
                BuiltQuery(Text("UPDATE ") \o full_name(table) \o Text(" SET ")
                               \o join(set_clauses, ", ") \o Text(" OUTPUT ")
                               \o column_list(table.columns, "inserted.")
                               \o where_part(where_clause),
                           where_clause.params)

\* query.rs 365-387: build_delete
build_delete(table, filters) ==
    LET where_clause == build_where_clause(filters, <<>>) IN
    IF ~where_clause.ok THEN BadRequest
    ELSE BuiltQuery(Text("DELETE FROM ") \o full_name(table) \o Text(" OUTPUT ")
                        \o column_list(table.columns, "deleted.")
                        \o where_part(where_clause),
                    where_clause.params)

\* A token of a group expression: "(", ")", ",", "or", "and", or one
\* condition col.op.value, already split at its dots.
Tok(str) == [t |-> str]
Cond(key, expr) == [t |-> "cond", key |-> key, expr |-> expr]

\* filters.rs 217-246: split_respecting_parens, on tokens; cur is the part
\* being collected and depth the nesting depth so far.
RECURSIVE split_respecting_parens(_, _, _)
split_respecting_parens(s, cur, depth) ==
    CASE s = <<>> -> IF cur = <<>> THEN <<>> ELSE <<cur>>
      [] Head(s).t = "(" -> split_respecting_parens(Tail(s), Append(cur, Head(s)), depth + 1)
      [] Head(s).t = ")" -> split_respecting_parens(Tail(s), Append(cur, Head(s)), depth - 1)
      [] Head(s).t = "," /\ depth = 0 -> <<cur>> \o split_respecting_parens(Tail(s), <<>>, 0)
      [] OTHER -> split_respecting_parens(Tail(s), Append(cur, Head(s)), depth)

\* The text between an opening and a closing parenthesis, or the text itself.
strip_parens(s) ==
    IF Len(s) >= 2 /\ s[1].t = "(" /\ s[Len(s)].t = ")" THEN SubSeq(s, 2, Len(s) - 1) ELSE s

\* filters.rs 160-215: parse_logic_group; <<ErrorNode>> for a part that is no
\* condition and no group.
ErrorNode == [node |-> "error", filter |-> [none |-> TRUE], nodes |-> <<>>]
IsError(nodes) == Len(nodes) = 1 /\ nodes[1].node = "error"
RECURSIVE parse_logic_group(_), parse_parts_of_group(_)
parse_parts_of_group(parts) ==
    IF parts = <<>> THEN <<>>
    ELSE LET part == Head(parts)
             rest == parse_parts_of_group(Tail(parts))
             grouped == /\ Len(part) >= 3
                        /\ part[1].t \in {"or", "and"}
                        /\ part[2].t = "("
                        /\ part[Len(part)].t = ")"
             children == parse_logic_group(Tail(part))
         IN  CASE IsError(rest) -> rest
               [] part = <<>> -> rest
               [] grouped ->
                    IF IsError(children) THEN children
                    ELSE <<IF part[1].t = "or" THEN Or(children) ELSE And(children)>> \o rest
               [] Len(part) = 1 /\ part[1].t = "cond" ->
                    <<Condition(parse_filter(part[1].key, part[1].expr))>> \o rest
               [] OTHER -> <<ErrorNode>>
parse_logic_group(expr) ==
    parse_parts_of_group(split_respecting_parens(strip_parens(expr), <<>>, 0))

\* schema.rs 57-62: TableInfo::column
column(table, name) == name \in Range(table.columns)

reserved == {<<"select">>, <<"order">>, <<"limit">>, <<"offset">>, <<"and">>, <<"or">>}

\* handlers.rs 479-529: build_filters_from_params; query_params is the map as
\* its entries in iteration order, an entry being a key with its value as a
\* group expression (group) and as a column filter (expr).  <<ErrorNode>> when
\* a group does not parse.
RECURSIVE build_filters_from_params(_, _)
build_filters_from_params(query_params, table) ==
    IF query_params = <<>> THEN <<>>
    ELSE LET p == Head(query_params)
             rest == build_filters_from_params(Tail(query_params), table)
             group_filters == parse_logic_group(p.group)
         IN  CASE IsError(rest) -> rest
               [] p.key \in reserved -> rest
               [] p.key \in {<<"or">>, <<"and">>} ->
                    IF IsError(group_filters) THEN group_filters
                    ELSE <<IF p.key = <<"or">> THEN Or(group_filters)
                           ELSE And(group_filters)>> \o rest
               [] "." \in Range(p.key) -> rest
               [] column(table, p.key) -> <<Condition(parse_filter(p.key, p.expr))>> \o rest
               [] OTHER -> rest

\* handlers.rs 981-1004: build_embed_column_list
build_embed_column_list(table, nodes) ==
    CASE nodes = <<>> \/ has_star(nodes) -> column_list(table.columns, "")
      [] select_columns(nodes) = <<>> -> Text("*")
      [] OTHER -> column_list(select_columns(nodes), "")

\* handlers.rs 881-898: handle_embeds, the batch query of one embed.
embed_sql(target_table, target_column, columns, source_values) ==
    BuiltQuery(Text("SET NOCOUNT ON;") \o Text("SELECT ")
                   \o build_embed_column_list(target_table, columns)
                   \o Text(" FROM ") \o full_name(target_table) \o Text(" WHERE ")
                   \o bracketed(target_column) \o Text(" IN (")
                   \o join([i \in 1..Len(source_values) |-> Param(i)], ", ") \o Text(")"),
               source_values)

\* handlers.rs 1034-1049: json_value_to_sql_string, scalars.
json_value_to_sql_string(val) ==
    CASE val.kind = "null" -> ""
      [] val.kind = "bool" -> IF val.n = 1 THEN "1" ELSE "0"
      [] val.kind = "number" -> ToString(val.n)
      [] OTHER -> val.s

\* A body object is its members in key order; serde_json's Map::get.
Member(key, val) == [key |-> key, val |-> val]
keys(obj) == [i \in 1..Len(obj) |-> obj[i].key]
get(obj, key) ==
    IF \E i \in 1..Len(obj) : obj[i].key = key
    THEN (CHOOSE m \in Range(obj) : m.key = key).val
    ELSE JsonNull

\* handlers.rs 264-270: the values of every object in the order of the first
\* object's keys, a missing member as null.
RECURSIVE param_values_of(_, _)
param_values_of(objects, columns) ==
    IF objects = <<>> THEN <<>>
    ELSE [i \in 1..Len(columns) |-> json_value_to_sql_string(get(Head(objects), columns[i]))]
             \o param_values_of(Tail(objects), columns)

\* ---- the requests of the model
MaxChildren == 2

People == [schema |-> <<"dbo">>, name |-> <<"people">>,
           columns |-> << <<"age">>, <<"name">> >>, primary_key |-> << <<"age">> >>,
           unique_constraints |-> <<>>]
Odd == [schema |-> <<"dbo">>, name |-> <<"a", "]", "b">>,
        columns |-> << <<"x", "]">> >>, primary_key |-> <<>>, unique_constraints |-> <<>>]
Tagged == [schema |-> <<"dbo">>, name |-> <<"tags">>,
           columns |-> << <<"age">>, <<"name">> >>, primary_key |-> <<>>,
           unique_constraints |-> << << <<"name">> >> >>]
SqlTables == {People, Odd}
PostTables == SqlTables \cup {Tagged}

Expr(negated, op, arg) == [negated |-> negated, op |-> op, arg |-> arg]
InExpr(negated, list) == [negated |-> negated, op |-> "in", arg |-> "", list |-> list]

\* The filters the trees are made of.
Leaves ==
    { parse_filter(<<"age">>, Expr(FALSE, "gt", "18")),
      parse_filter(<<"name">>, Expr(TRUE, "like", "*a*")),
      parse_filter(<<"name">>, InExpr(FALSE, <<"(", "a", ",", "b", ")">>)),
      parse_filter(<<"age">>, InExpr(TRUE, <<"(", ")">>)),
      parse_filter(<<"x", "]">>, Expr(FALSE, "is", "NULL")),
      parse_filter(<<"age">>, Expr(FALSE, "is", "maybe")) }
SeqsUpTo(S, n) == UNION {[1..k -> S] : k \in 0..n}
Conditions == {Condition(f) : f \in Leaves}
Groups == {And(ns) : ns \in SeqsUpTo(Conditions, MaxChildren)}
              \cup {Or(ns) : ns \in SeqsUpTo(Conditions, MaxChildren)}
Nested == UNION {{Or(<<c, And(<<>>)>>), Or(<<c, And(<<c>>)>>)} : c \in Conditions}
FilterTrees ==
    {<<>>} \cup {<<n>> : n \in Conditions \cup Groups \cup Nested}
           \cup {<<c, g>> : c \in Conditions, g \in Nested}

\* The query parameters of a GET: column filters, an or and an and group, an
\* embed filter, a key that is no column.
NoExpr == Expr(FALSE, "eq", "")
QueryParam(key, expr, group) == [key |-> key, expr |-> expr, group |-> group]
OrGroup ==
    <<Tok("("), Cond(<<"age">>, Expr(FALSE, "gt", "18")), Tok(","),
      Cond(<<"name">>, Expr(FALSE, "like", "*a*")), Tok(")")>>
AndGroup ==
    <<Tok("("), Cond(<<"name">>, Expr(FALSE, "eq", "a")), Tok(","), Tok("or"), Tok("("),
      Cond(<<"age">>, Expr(FALSE, "lt", "5")), Tok(","),
      Cond(<<"age">>, Expr(FALSE, "gt", "18")), Tok(")"), Tok(")")>>
QueryParams ==
    { QueryParam(<<"age">>, Expr(FALSE, "gt", "18"), <<>>),
      QueryParam(<<"age">>, InExpr(FALSE, <<"(", ")">>), <<>>),
      QueryParam(<<"name">>, InExpr(FALSE, <<"(", "a", ",", ",", "b", ")">>), <<>>),
      QueryParam(<<"name">>, Expr(TRUE, "like", "*a*"), <<>>),
      QueryParam(<<"or">>, NoExpr, OrGroup),
      QueryParam(<<"and">>, NoExpr, AndGroup),
      QueryParam(<<"orders", ".", "status">>, Expr(FALSE, "eq", "a"), <<>>),
      QueryParam(<<"zip">>, Expr(FALSE, "eq", "a"), <<>>) }
QueryMaps ==
    {<<>>} \cup {<<p>> : p \in QueryParams}
           \cup UNION {{<<p, q>> : q \in {r \in QueryParams : r.key # p.key}} :
                            p \in QueryParams}

Selects == {<<>>, <<Star>>, <<Column(<<"name">>), Column(<<"a", "]">>)>>,
            <<Star, Column(<<"zip">>), Embed(<<"orders">>, <<>>, <<Star>>)>>}
Orders == {<<>>, <<[column |-> <<"age">>, direction |-> "DESC", nulls |-> "first"],
                    [column |-> <<"n", "]">>, direction |-> "ASC", nulls |-> "none"]>>}
Pages == {[limit |-> <<>>, offset |-> <<>>], [limit |-> <<10>>, offset |-> <<>>],
          [limit |-> <<10>>, offset |-> <<20>>]}
ColumnLists == {<<>>, << <<"age">> >>, << <<"name">>, <<"n", "]">> >>}
ProcNames == {<<"p">>, <<"p", "]", "q">>, <<"p", "'">>}
RpcArgs ==
    {<<>>, <<[key |-> <<"a">>, val |-> "1"]>>,
     <<[key |-> <<"a", "]">>, val |-> "1"], [key |-> <<"b">>, val |-> "x"]>>,
     <<[key |-> <<"a = 1; DROP TABLE t; --">>, val |-> "1"]>>}
SourceValues == {<<"1">>, <<"1", "2">>}
Ann == <<Member(<<"age">>, JsonNumber(1)), Member(<<"name">>, JsonString("ann"))>>
Bob == <<Member(<<"age">>, JsonNumber(2)), Member(<<"name">>, JsonString("bob"))>>
PostBodies ==
    {<<Ann>>, <<Ann, Bob>>, <<Ann, <<Member(<<"age">>, JsonNumber(3))>> >>,
     <<Bob, Ann, Ann>>, << <<Member(<<"name">>, JsonBool(TRUE))>>, Bob>>, << <<>> >>}

\* handlers.rs 32-82: handle_get, from the query parameters to build_select.
handle_get_sql(table, query_params, select_nodes, order, page, count_only) ==
    /\ sql_pc = "idle"
    /\ LET filter_nodes == build_filters_from_params(query_params, table) IN
         /\ sql_call' = [fn |-> "handle_get", table |-> table,
                         query_params |-> query_params, filters |-> filter_nodes,
                         columns |-> <<>>]
         /\ built' = IF IsError(filter_nodes) THEN BadRequest
                     ELSE build_select(table, select_nodes, filter_nodes, order,
                                       page.limit, page.offset, count_only)
    /\ sql_pc' = "built"

\* handlers.rs 279-322: handle_patch calls build_update with the body's keys.
call_build_update(table, columns, filters) ==
    /\ sql_pc = "idle"
    /\ sql_call' = [fn |-> "build_update", table |-> table, query_params |-> <<>>,
                    filters |-> filters, columns |-> columns]
    /\ built' = build_update(table, columns, filters)
    /\ sql_pc' = "built"

\* handlers.rs 325-352: handle_delete calls build_delete.
call_build_delete(table, filters) ==
    /\ sql_pc = "idle"
    /\ sql_call' = [fn |-> "build_delete", table |-> table, query_params |-> <<>>,
                    filters |-> filters, columns |-> <<>>]
    /\ built' = build_delete(table, filters)
    /\ sql_pc' = "built"

\* query.rs 79-168: build_select on a filter tree.
call_build_select(table, filters, count_only) ==
    /\ sql_pc = "idle"
    /\ sql_call' = [fn |-> "build_select", table |-> table, query_params |-> <<>>,
                    filters |-> filters, columns |-> <<>>]
    /\ built' = build_select(table, <<Star>>, filters, <<>>, <<>>, <<>>, count_only)
    /\ sql_pc' = "built"

\* handlers.rs 207-276: handle_post calls build_insert with the body's keys.
call_build_insert(table, columns, value_count) ==
    /\ sql_pc = "idle"
    /\ sql_call' = [fn |-> "build_insert", table |-> table, query_params |-> <<>>,
                    filters |-> <<>>, columns |-> columns]
    /\ built' = build_insert(table, columns, value_count)
    /\ sql_pc' = "built"

\* handlers.rs 207-276: handle_post, from the normalized body to the statement
\* and the values execute_dml_query binds (handlers.rs 756-759).
handle_post(table, objects, is_upsert) ==
    /\ sql_pc = "idle"
    /\ objects # <<>>
    /\ LET columns == keys(objects[1]) IN
         /\ sql_call' = [fn |-> "handle_post", table |-> table, query_params |-> <<>>,
                         filters |-> <<>>, columns |-> columns, objects |-> objects,
                         is_upsert |-> is_upsert,
                         param_values |-> param_values_of(objects, columns)]
         /\ built' = IF is_upsert THEN build_upsert(table, columns, Len(objects))
                     ELSE build_insert(table, columns, Len(objects))
    /\ sql_pc' = "built"

\* handlers.rs 355-390: handle_rpc
handle_rpc(proc_name, args) ==
    /\ sql_pc = "idle"
    /\ sql_call' = [fn |-> "handle_rpc", proc_name |-> proc_name, args |-> args]
    /\ built' = rpc_sql(proc_name, args)
    /\ sql_pc' = "built"

\* handlers.rs 840-898: handle_embeds, one embed with join-key values.
call_embed_sql(target_table, columns, source_values) ==
    /\ sql_pc = "idle"
    /\ sql_call' = [fn |-> "handle_embeds", table |-> target_table, query_params |-> <<>>,
                    filters |-> <<>>, columns |-> <<>>]
    /\ built' = embed_sql(target_table, target_table.columns[1], columns, source_values)
    /\ sql_pc' = "built"

\* The statement has been sent; the next request.
sql_sent ==
    /\ sql_pc = "built"
    /\ sql_pc' = "idle"
    /\ sql_call' = NoCall
    /\ built' = BuiltQuery(<<>>, <<>>)

InitSql ==
    /\ sql_pc = "idle"
    /\ sql_call = NoCall
    /\ built = BuiltQuery(<<>>, <<>>)

NextSql ==
    \/ \E table \in SqlTables, query_params \in QueryMaps, select_nodes \in Selects,
          order \in Orders, page \in Pages, count_only \in BOOLEAN :
            handle_get_sql(table, query_params, select_nodes, order, page, count_only)
    \/ \E table \in SqlTables, columns \in ColumnLists, filters \in FilterTrees :
            call_build_update(table, columns, filters)
    \/ \E table \in SqlTables, filters \in FilterTrees : call_build_delete(table, filters)
    \/ \E table \in SqlTables, filters \in FilterTrees, count_only \in BOOLEAN :
            call_build_select(table, filters, count_only)
    \/ \E table \in SqlTables, columns \in ColumnLists, value_count \in 1..2 :
            call_build_insert(table, columns, value_count)
    \/ \E table \in PostTables, objects \in PostBodies, is_upsert \in BOOLEAN :
            handle_post(table, objects, is_upsert)
    \/ \E proc_name \in ProcNames, args \in RpcArgs : handle_rpc(proc_name, args)
    \/ \E target_table \in SqlTables, columns \in Selects, source_values \in SourceValues :
            call_embed_sql(target_table, columns, source_values)
    \/ sql_sent

\* ---- what the claims read off a built statement

\* The numbers of the placeholders of a text, in the order they appear.
Placeholders(sql) ==
    LET ps == SelectSeq(sql, LAMBDA x : x.o = "param") IN [i \in 1..Len(ps) |-> ps[i].n]

\* The text after " WHERE ", empty when the statement has no WHERE clause.
WherePart(sql) ==
    IF \E i \in 1..Len(sql) : sql[i].c = " WHERE "
    THEN SubSeq(sql, (CHOOSE i \in 1..Len(sql) : sql[i].c = " WHERE ") + 1, Len(sql))
    ELSE <<>>

\* The names of a text: for every piece that came from a name, the run of
\* name pieces it belongs to.
RECURSIVE NameRun(_, _)
NameRun(sql, i) ==
    IF i > Len(sql) \/ sql[i].o # "name" THEN <<>> ELSE <<sql[i].c>> \o NameRun(sql, i + 1)
NamesIn(sql) ==
    {NameRun(sql, i) : i \in {j \in 1..Len(sql) :
                                 sql[j].o = "name" /\ (j = 1 \/ sql[j - 1].o # "name")}}

\* The literals of a filter tree in order: one per comparison, one per item of
\* an in list, none for is; and the columns of the tree.
RECURSIVE literals(_), columns_of(_)
literals(nodes) ==
    IF nodes = <<>> THEN <<>>
    ELSE LET node == Head(nodes) IN
         (CASE node.node # "condition" -> literals(node.nodes)
            [] node.filter.operator = "is" -> <<>>
            [] node.filter.operator = "in" -> node.filter.value.items
            [] OTHER -> <<node.filter.value.s>>) \o literals(Tail(nodes))
columns_of(nodes) ==
    IF nodes = <<>> THEN {}
    ELSE (IF Head(nodes).node = "condition" THEN {Head(nodes).filter.column}
          ELSE columns_of(Head(nodes).nodes)) \cup columns_of(Tail(nodes))

WithFilters == {"build_select", "build_update", "build_delete"}
Built == sql_pc = "built" /\ built.err = "none"

\* C11: in every statement built for a request, each name is read by the
\* server as part of a delimited identifier, with its "]" doubled, and no
\* value is part of the text.
C11_NamesDelimitedValuesBound ==
    Built => NamesDelimited(built.sql, 1, FALSE)

\* C12: the statement built from a filter tree binds exactly the literals of
\* the tree in order, one per comparison, one per item of an in list and none
\* for is; its WHERE clause holds no name but the columns of the tree and its
\* placeholders are numbered offset+1, offset+2, ... in the order of the
\* parameters, offset being the number of SET columns for UPDATE and 0 for
\* SELECT and DELETE.
C12_OneParameterPerLiteral ==
    (Built /\ sql_call.fn \in WithFilters) =>
        LET offset == Len(sql_call.columns)
            where_clause == WherePart(built.sql)
        IN  /\ built.params = literals(sql_call.filters)
            /\ Placeholders(where_clause) = [i \in 1..Len(built.params) |-> offset + i]
            /\ Placeholders(built.sql) = [i \in 1..(offset + Len(built.params)) |-> i]
            /\ NamesIn(where_clause) \subseteq
                   {escape_ident(c) : c \in columns_of(sql_call.filters)}

\* An UPDATE of two columns filtered by a condition and a nested group: five
\* literals, bound after the two SET values.
C12_Witness ==
    /\ Built
    /\ sql_call.fn = "build_update"
    /\ Len(sql_call.columns) = 2
    /\ Len(sql_call.filters) = 2
    /\ sql_call.filters[2].node = "or"
    /\ Len(built.params) = 5
    /\ Placeholders(WherePart(built.sql)) = <<3, 4, 5, 6, 7>>

\* The body objects a statement writes: object j is written when the statement
\* reads each of its k placeholders @P((j-1)k+1)..@P(jk).
WrittenObjects(sql, n, k) ==
    {j \in 1..n : \A i \in 1..k : \E p \in 1..Len(sql) :
                       sql[p].o = "param" /\ sql[p].n = (j - 1) * k + i}

\* C22: for an INSERT or UPSERT request with n >= 1 body objects over k
\* columns, the statement reads exactly the placeholders @P1..@P(n*k), the
\* n*k values are bound in row-major order, and every object is written.
C22_EveryObjectWritten ==
    (Built /\ sql_call.fn = "handle_post") =>
        LET n == Len(sql_call.objects)
            k == Len(sql_call.columns)
        IN  /\ Placeholders(built.sql) = [i \in 1..(n * k) |-> i]
            /\ sql_call.param_values =
                   [i \in 1..(n * k) |->
                       json_value_to_sql_string(
                           get(sql_call.objects[((i - 1) \div k) + 1],
                               sql_call.columns[((i - 1) % k) + 1]))]
            /\ WrittenObjects(built.sql, n, k) = 1..n

\* C13: a GET with an or=(...) or and=(...) parameter is built from a filter
\* list that holds the parsed group as an Or or And node, and the statement
\* has the group in its WHERE clause; for or=(age.gt.18,name.like.*a*) alone
\* the parameters are 18 and %a%.
C13_GroupInWhere ==
    (sql_pc = "built" /\ sql_call.fn = "handle_get") =>
        /\ \A i \in 1..Len(sql_call.query_params) :
              LET p == sql_call.query_params[i] IN
              p.key \in {<<"or">>, <<"and">>} =>
                  /\ \E j \in 1..Len(sql_call.filters) :
                        /\ sql_call.filters[j].node = p.key[1]
                        /\ sql_call.filters[j].nodes = parse_logic_group(p.group)
                  /\ WherePart(built.sql) # <<>>
        /\ sql_call.query_params = <<QueryParam(<<"or">>, NoExpr, OrGroup)>>
              => built.params = <<"18", "%a%">>

\* C18: no statement built from a filter holds an empty IN list.
C18_NoEmptyInList ==
    Built => ~\E i \in 1..(Len(built.sql) - 1) :
                  built.sql[i].c = " IN (" /\ built.sql[i + 1].c = "))"

\* ------------------------------------------------------------ request parsing
\* router.rs 126-130 and handlers.rs 450-476 (the table path), select.rs 33-130
\* (the select parameter).  A text is the sequence of its tokens: a name, or
\* one of the characters "/", "(", ")", ",", "!", ":", "*".

MaxSelectLen == 4

\* router.rs 126-130: parse_wildcard_path
parse_wildcard_path(path) == <<[key |-> <<"path">>, val |-> path]>>

\* str::split(sep) on tokens, then the parts that are not empty.
RECURSIVE split_on(_, _, _)
split_on(s, sep, cur) ==
    CASE s = <<>> -> <<cur>>
      [] Head(s) = sep -> <<cur>> \o split_on(Tail(s), sep, <<>>)
      [] OTHER -> split_on(Tail(s), sep, Append(cur, Head(s)))
non_empty(parts) == SelectSeq(parts, LAMBDA x : x # <<>>)

DefaultSchema == <<"dbo">>
Resolved(schema_name, table_name) ==
    [ok |-> TRUE, schema |-> schema_name, table |-> table_name]
InvalidPath == [ok |-> FALSE, schema |-> <<>>, table |-> <<>>]

\* handlers.rs 450-476: resolve_table_path
resolve_table_path(path_params) ==
    IF Len(path_params) # 1 THEN InvalidPath
    ELSE LET key == path_params[1].key
             val == path_params[1].val
             full == IF val # <<>> THEN key \o <<"/">> \o val ELSE key
             parts == non_empty(split_on(full, "/", <<>>))
         IN  CASE Len(parts) = 1 -> Resolved(DefaultSchema, parts[1])
               [] Len(parts) = 2 -> Resolved(parts[1], parts[2])
               [] OTHER -> InvalidPath

\* select.rs 101-130: split_top_level
RECURSIVE split_top_level(_, _, _)
split_top_level(s, cur, depth) ==
    CASE s = <<>> -> IF cur = <<>> THEN <<>> ELSE <<cur>>
      [] Head(s) = "(" -> split_top_level(Tail(s), Append(cur, "("), depth + 1)
      [] Head(s) = ")" -> split_top_level(Tail(s), Append(cur, ")"), depth - 1)
      [] Head(s) = "," /\ depth = 0 -> <<cur>> \o split_top_level(Tail(s), <<>>, 0)
      [] OTHER -> split_top_level(Tail(s), Append(cur, Head(s)), depth)

\* str::find(ch): the first position of ch, 0 when there is none.
find(s, ch) ==
    IF \E i \in 1..Len(s) : s[i] = ch
    THEN CHOOSE i \in 1..Len(s) : s[i] = ch /\ \A j \in 1..(i - 1) : s[j] # ch
    ELSE 0

SelectError == [node |-> "error", name |-> <<>>, fk_hint |-> <<>>, columns |-> <<>>]
IsSelectError(nodes) == Len(nodes) = 1 /\ nodes[1].node = "error"

\* select.rs 33-99: parse_select and parse_select_token; <<SelectError>> is
\* the bad request.
RECURSIVE parse_select(_), parse_select_token(_), parse_select_tokens(_)
parse_select_token(token) ==
    LET paren_start == find(token, "(") IN
    CASE token = <<"*">> -> Star
      [] paren_start # 0 ->
            IF token[Len(token)] # ")" THEN SelectError
            ELSE LET prefix == SubSeq(token, 1, paren_start - 1)
                     inner == SubSeq(token, paren_start + 1, Len(token) - 1)
                     bang_pos == find(prefix, "!")
                     columns == parse_select(inner)
                 IN  IF IsSelectError(columns) THEN SelectError
                     ELSE IF bang_pos # 0
                          THEN Embed(SubSeq(prefix, 1, bang_pos - 1),
                                     <<SubSeq(prefix, bang_pos + 1, Len(prefix))>>, columns)
                          ELSE Embed(prefix, <<>>, columns)
      [] find(token, ":") # 0 -> Column(SubSeq(token, find(token, ":") + 1, Len(token)))
      [] OTHER -> Column(token)
parse_select_tokens(tokens) ==
    IF tokens = <<>> THEN <<>>
    ELSE LET node == parse_select_token(Head(tokens))
             rest == parse_select_tokens(Tail(tokens))
         IN  IF node.node = "error" \/ IsSelectError(rest) THEN <<SelectError>>
             ELSE <<node>> \o rest
parse_select(input) ==
    IF input = <<>> THEN <<Star>> ELSE parse_select_tokens(split_top_level(input, <<>>, 0))

\* ---- the requests of the model
Paths == {<<"orders">>, <<"dbo", "/", "orders">>, <<"a", "/", "b", "/", "c">>,
          <<"orders", "/">>, <<"/", "orders">>, <<"path">>, <<"path", "/", "orders">>}
SelectAlphabet == {"a", "b", "(", ")", ",", "!", "*"}
SelectInputs == UNION {[1..k -> SelectAlphabet] : k \in 0..MaxSelectLen}
NoParse == [fn |-> "none"]

\* router.rs 56-124 and handlers.rs 38: a table request resolves its path.
call_resolve_table_path(path) ==
    /\ parse_pc = "idle"
    /\ parse_call' = [fn |-> "resolve_table_path", path |-> path]
    /\ parsed' = resolve_table_path(parse_wildcard_path(path))
    /\ parse_pc' = "parsed"

\* handlers.rs 54-55: handle_get parses the select parameter.
call_parse_select(input) ==
    /\ parse_pc = "idle"
    /\ parse_call' = [fn |-> "parse_select", input |-> input]
    /\ parsed' = parse_select(input)
    /\ parse_pc' = "parsed"

\* The request goes on; the next request.
parse_next ==
    /\ parse_pc = "parsed"
    /\ parse_pc' = "idle"
    /\ parse_call' = NoParse
    /\ parsed' = <<>>

InitParse ==
    /\ parse_pc = "idle"
    /\ parse_call = NoParse
    /\ parsed = <<>>

NextParse ==
    \/ \E path \in Paths : call_resolve_table_path(path)
    \/ \E input \in SelectInputs : call_parse_select(input)
    \/ parse_next

\* The segments of a path, and whether the parentheses of a text are balanced:
\* none closes what was not opened and none is left open.
Segments(path) == non_empty(split_on(path, "/", <<>>))
RECURSIVE Balanced(_, _)
Balanced(s, depth) ==
    CASE s = <<>> -> depth = 0
      [] Head(s) = "(" -> Balanced(Tail(s), depth + 1)
      [] Head(s) = ")" -> depth > 0 /\ Balanced(Tail(s), depth - 1)
      [] OTHER -> Balanced(Tail(s), depth)

\* C14: a path of one segment resolves to the default schema and that table,
\* a path of two segments to that schema and table, any other path is a bad
\* request.
C14_PathResolves ==
    (parse_pc = "parsed" /\ parse_call.fn = "resolve_table_path") =>
        LET segments == Segments(parse_call.path) IN
        CASE Len(segments) = 1 -> parsed = Resolved(DefaultSchema, segments[1])
          [] Len(segments) = 2 -> parsed = Resolved(segments[1], segments[2])
          [] OTHER -> parsed = InvalidPath

\* C20: parse_select is a bad request for every text whose parentheses are not
\* balanced, and a balanced name(inner) or name!fk(inner) alone is one Embed
\* node with that name, that hint and the parsed inner list.
C20_UnbalancedRejected ==
    (parse_pc = "parsed" /\ parse_call.fn = "parse_select") =>
        LET input == parse_call.input IN
        /\ ~Balanced(input, 0) => IsSelectError(parsed)
        /\ (Balanced(input, 0) /\ Len(input) >= 3 /\ input[1] \in {"a", "b"}
                /\ input[2] = "(" /\ input[Len(input)] = ")"
                /\ Balanced(SubSeq(input, 3, Len(input) - 1), 0))
              => /\ Len(parsed) = 1
                 /\ parsed[1].node \in {"embed", "error"}
                 /\ parsed[1].node = "embed" =>
                        /\ parsed[1].name = <<input[1]>>
                        /\ parsed[1].columns = parse_select(SubSeq(input, 3, Len(input) - 1))

\* ------------------------------------------------------------ embedding
\* handlers.rs 139-153 and 830-979 (handle_embeds), schema.rs 108-157
\* (find_embed).  A row is a function from column names to JSON values.

MaxRows == 2

JsonObject(obj) == [kind |-> "object", obj |-> obj]
JsonArray(elems) == [kind |-> "array", elems |-> elems]

\* The catalog's foreign keys: orders.customer_id -> customers.id,
\* items.order_id -> orders.id, customers.region_id -> regions.id.
ForeignKeys ==
    { [table |-> <<"orders">>, column_name |-> <<"customer_id">>,
       ref_table |-> <<"customers">>, ref_column |-> <<"id">>,
       constraint_name |-> <<"fk_customer">>],
      [table |-> <<"items">>, column_name |-> <<"order_id">>,
       ref_table |-> <<"orders">>, ref_column |-> <<"id">>,
       constraint_name |-> <<"fk_order">>],
      [table |-> <<"customers">>, column_name |-> <<"region_id">>,
       ref_table |-> <<"regions">>, ref_column |-> <<"id">>,
       constraint_name |-> <<"fk_region">>] }
NoEmbed == [found |-> FALSE]
EmbedInfo(target_table, join_type, source_column, target_column) ==
    [found |-> TRUE, target_table |-> target_table, join_type |-> join_type,
     source_column |-> source_column, target_column |-> target_column]

\* schema.rs 108-157: find_embed; first the foreign keys of the source table,
\* then the foreign keys that point to it; a hint must name the constraint.
find_embed(source_table, embed_name, hint_fk) ==
    LET hinted(fk) == hint_fk = <<>> \/ hint_fk = fk.constraint_name
        own == {fk \in ForeignKeys : fk.table = source_table /\ fk.ref_table = embed_name
                                         /\ hinted(fk)}
        refs == {fk \in ForeignKeys : fk.ref_table = source_table /\ fk.table = embed_name
                                          /\ hinted(fk)}
    IN  CASE own # {} ->
                LET fk == CHOOSE x \in own : TRUE IN
                EmbedInfo(fk.ref_table, "ManyToOne", fk.column_name, fk.ref_column)
          [] refs # {} ->
                LET fk == CHOOSE x \in refs : TRUE IN
                EmbedInfo(fk.table, "OneToMany", fk.ref_column, fk.column_name)
          [] OTHER -> NoEmbed

\* A row of two or three columns.
Row2(k1, v1, k2, v2) == (k1 :> v1) @@ (k2 :> v2)
Row3(k1, v1, k2, v2, k3, v3) == (k1 :> v1) @@ (k2 :> v2) @@ (k3 :> v3)

\* The rows of the tables that are embedded.
DbRows ==
    (<<"customers">> :>
        <<Row3(<<"id">>, JsonNumber(1), <<"name">>, JsonString("x"),
               <<"region_id">>, JsonNumber(1)),
          Row3(<<"id">>, JsonNumber(2), <<"name">>, JsonString("y"),
               <<"region_id">>, JsonNull)>>)
    @@ (<<"items">> :>
        <<Row2(<<"id">>, JsonNumber(1), <<"order_id">>, JsonNumber(1)),
          Row2(<<"id">>, JsonNumber(2), <<"order_id">>, JsonNumber(1)),
          Row2(<<"id">>, JsonNumber(3), <<"order_id">>, JsonNumber(3))>>)
    @@ (<<"regions">> :>
        <<Row2(<<"id">>, JsonNumber(1), <<"name">>, JsonString("north"))>>)

\* handlers.rs 862-866, 933-937, 949-953: the text a join value is matched as.
join_key(v) == IF v.kind = "string" THEN v.s ELSE val_str(v)

\* handlers.rs 859-870: source_values, the join values of the rows, without
\* the rows that have no such column or a null in it.
source_values_of(parent_rows, source_column) ==
    {join_key(parent_rows[i][source_column]) :
        i \in {j \in 1..Len(parent_rows) :
                  /\ source_column \in DOMAIN parent_rows[j]
                  /\ parent_rows[j][source_column].kind # "null"}}

\* query.rs 391-425 and handlers.rs 981-1004: the columns a query returns for
\* a select list: all of them for a star, for an empty list and for a list
\* without column names, else the columns named.
returned_columns(nodes, table_columns) ==
    IF nodes = <<>> \/ has_star(nodes) \/ select_columns(nodes) = <<>>
    THEN table_columns
    ELSE Range(select_columns(nodes)) \cap table_columns
project(r, cols) == [k \in cols |-> r[k]]

\* handlers.rs 881-925: the batch query: the rows of the target table whose
\* join column is among the values, with the columns build_embed_column_list
\* names.
embed_query(target_table, target_column, nodes, values) ==
    LET all == DbRows[target_table]
        hits == SelectSeq(all, LAMBDA r : /\ r[target_column].kind # "null"
                                          /\ join_key(r[target_column]) \in values)
        cols == returned_columns(nodes, DOMAIN all[1])
    IN  [i \in 1..Len(hits) |-> project(hits[i], cols)]

\* handlers.rs 930-945: grouped, the embed rows under a join value.
grouped(embed_json, target_column, key) ==
    LET with_key == SelectSeq(embed_json, LAMBDA r : /\ target_column \in DOMAIN r
                                                      /\ r[target_column].kind # "null"
                                                      /\ join_key(r[target_column]) = key)
    IN  [i \in 1..Len(with_key) |-> JsonObject(with_key[i])]

\* handlers.rs 947-975: what one parent row gets under the embed's name.
attach(row, info, embed_json) ==
    LET source_val == CASE info.source_column \notin DOMAIN row -> ""
                        [] row[info.source_column].kind = "null" -> ""
                        [] OTHER -> join_key(row[info.source_column])
        embedded == grouped(embed_json, info.target_column, source_val)
    IN  CASE info.join_type = "OneToMany" -> JsonArray(embedded)
          [] embedded # <<>> -> embedded[1]
          [] OTHER -> JsonNull

\* The rows of orders the main query can find.
OrderRows ==
    { Row2(<<"id">>, JsonNumber(1), <<"customer_id">>, JsonNumber(1)),
      Row2(<<"id">>, JsonNumber(2), <<"customer_id">>, JsonNull),
      Row2(<<"id">>, JsonNumber(3), <<"customer_id">>, JsonNumber(2)) }
ParentRows == UNION {[1..n -> OrderRows] : n \in 0..MaxRows}

\* The select lists of the requests: a many-to-one embed, a one-to-many
\* embed, both, an embed without its join column, a nested embed, an
\* unknown name; the main query returns every column or id alone.
EmbedSelects ==
    { <<Star>>,
      <<Star, Embed(<<"customers">>, <<>>, <<Star>>)>>,
      <<Star, Embed(<<"items">>, <<>>, <<Star>>)>>,
      <<Star, Embed(<<"items">>, <<>>, <<Column(<<"id">>)>>)>>,
      <<Column(<<"id">>), Embed(<<"customers">>, <<>>, <<Star>>)>>,
      <<Column(<<"id">>), Embed(<<"items">>, <<>>, <<Star>>)>>,
      <<Star, Embed(<<"customers">>, <<"fk_customer">>, <<Column(<<"name">>)>>),
        Embed(<<"items">>, <<>>, <<Star>>)>>,
      <<Star, Embed(<<"customers">>, <<>>, <<Star, Embed(<<"regions">>, <<>>, <<Star>>)>>)>>,
      <<Star, Embed(<<"items">>, <<"fk_other">>, <<Star>>)>>,
      <<Star, Embed(<<"nothing">>, <<>>, <<Star>>)>> }

embeds_of_request == select_embeds(emb_select)
embed_info_at(i) ==
    find_embed(<<"orders">>, embeds_of_request[i].name, embeds_of_request[i].fk_hint)

\* handlers.rs 139-153: handle_get has the rows and calls handle_embeds when
\* the select has embeds.
handle_get_rows ==
    /\ emb_pc = "idle"
    /\ \E nodes \in EmbedSelects, parent_rows \in ParentRows :
         /\ emb_select' = nodes
         /\ LET cols == returned_columns(nodes, {<<"id">>, <<"customer_id">>})
                 json == [i \in 1..Len(parent_rows) |-> project(parent_rows[i], cols)]
             IN  emb_parents' = json /\ emb_rows' = json
         /\ emb_pc' = IF select_embeds(nodes) = <<>> THEN "done" ELSE "resolve"
    /\ emb_i' = 1
    /\ emb_queries' = <<>>

\* handlers.rs 840-847: no relationship for the embed.
embed_not_found ==
    /\ emb_pc = "resolve"
    /\ emb_i <= Len(embeds_of_request)
    /\ ~embed_info_at(emb_i).found
    /\ emb_pc' = "failed"
    /\ UNCHANGED <<emb_select, emb_parents, emb_rows, emb_i, emb_queries>>

\* handlers.rs 859-879: no row has a join value: every row gets an empty
\* array under the embed's name and no query is sent.
embed_no_values ==
    /\ emb_pc = "resolve"
    /\ emb_i <= Len(embeds_of_request)
    /\ embed_info_at(emb_i).found
    /\ source_values_of(emb_rows, embed_info_at(emb_i).source_column) = {}
    /\ emb_rows' = [r \in 1..Len(emb_rows) |->
                       Insert(emb_rows[r], embeds_of_request[emb_i].name, JsonArray(<<>>))]
    /\ emb_i' = emb_i + 1
    /\ UNCHANGED <<emb_pc, emb_select, emb_parents, emb_queries>>

\* handlers.rs 881-912: the batch query of the embed is built and sent.
embed_send ==
    /\ emb_pc = "resolve"
    /\ emb_i <= Len(embeds_of_request)
    /\ embed_info_at(emb_i).found
    /\ source_values_of(emb_rows, embed_info_at(emb_i).source_column) # {}
    /\ emb_pc' = "query"
    /\ emb_queries' = Append(emb_queries, embed_info_at(emb_i).target_table)
    /\ UNCHANGED <<emb_select, emb_parents, emb_rows, emb_i>>

\* handlers.rs 914-976: the rows of the batch query are grouped and attached.
embed_attach ==
    /\ emb_pc = "query"
    /\ LET info == embed_info_at(emb_i)
           embed == embeds_of_request[emb_i]
           embed_json == embed_query(info.target_table, info.target_column, embed.columns,
                                     source_values_of(emb_rows, info.source_column))
       IN  emb_rows' = [r \in 1..Len(emb_rows) |->
                           Insert(emb_rows[r], embed.name,
                                  attach(emb_rows[r], info, embed_json))]
    /\ emb_i' = emb_i + 1
    /\ emb_pc' = "resolve"
    /\ UNCHANGED <<emb_select, emb_parents, emb_queries>>

\* handlers.rs 914-922: the batch query fails and the request fails with it.
embed_query_error ==
    /\ emb_pc = "query"
    /\ emb_pc' = "failed"
    /\ UNCHANGED <<emb_select, emb_parents, emb_rows, emb_i, emb_queries>>

\* handlers.rs 978: every embed is done.
embed_return ==
    /\ emb_pc = "resolve"
    /\ emb_i > Len(embeds_of_request)
    /\ emb_pc' = "done"
    /\ UNCHANGED <<emb_select, emb_parents, emb_rows, emb_i, emb_queries>>

\* The response is sent; the next request may come.
embed_responded ==
    /\ emb_pc \in {"done", "failed"}
    /\ emb_pc' = "idle"
    /\ emb_select' = <<>>
    /\ emb_parents' = <<>>
    /\ emb_rows' = <<>>
    /\ emb_i' = 1
    /\ emb_queries' = <<>>

InitEmbed ==
    /\ emb_pc = "idle"
    /\ emb_select = <<>>
    /\ emb_parents = <<>>
    /\ emb_rows = <<>>
    /\ emb_i = 1
    /\ emb_queries = <<>>

NextEmbed ==
    \/ handle_get_rows
    \/ embed_not_found
    \/ embed_no_values
    \/ embed_send
    \/ embed_attach
    \/ embed_query_error
    \/ embed_return
    \/ embed_responded

\* ---- C15, C16

Embedded == emb_pc = "done" /\ embeds_of_request # <<>>
embed_names == {embeds_of_request[i].name : i \in 1..Len(embeds_of_request)}

\* The rows of the target table that match a parent row.
matches(row, info) ==
    IF info.source_column \notin DOMAIN row \/ row[info.source_column].kind = "null"
    THEN <<>>
    ELSE SelectSeq(DbRows[info.target_table],
                   LAMBDA r : r[info.target_column] = row[info.source_column])

\* C15: embedding leaves the number and the order of the parent rows as they
\* were and adds to each exactly one key per embed, named after the embed;
\* under it a many-to-one embed has one object or null, a one-to-many embed
\* an array, which is empty when nothing matches or the row has no join
\* value.
C15_EmbedShape ==
    Embedded =>
        /\ Len(emb_rows) = Len(emb_parents)
        /\ \A r \in 1..Len(emb_rows) :
             /\ DOMAIN emb_rows[r] = DOMAIN emb_parents[r] \cup embed_names
             /\ \A k \in DOMAIN emb_parents[r] : emb_rows[r][k] = emb_parents[r][k]
             /\ \A i \in 1..Len(embeds_of_request) :
                  LET info == embed_info_at(i)
                      v == emb_rows[r][embeds_of_request[i].name]
                  IN  IF info.join_type = "ManyToOne"
                      THEN v.kind \in {"object", "null"}
                      ELSE /\ v.kind = "array"
                           /\ matches(emb_parents[r], info) = <<>> => v.elems = <<>>

\* The embeds inside an embed of the request.
nested_in(i) == select_embeds(embeds_of_request[i].columns)
\* The embedded rows a parent row has under an embed's name.
objects_under(v) ==
    CASE v.kind = "object" -> {v.obj}
      [] v.kind = "array" -> {v.elems[j].obj : j \in 1..Len(v.elems)}
      [] OTHER -> {}

\* C16: with an embed inside an embed the handler goes one level down: one
\* more batch query for the inner level, and every row of the outer embed
\* has the inner rows under the inner embed's name.
C16_NestedEmbeds ==
    Embedded =>
        \A i \in 1..Len(embeds_of_request) :
            \A n \in 1..Len(nested_in(i)) :
                /\ Len(emb_queries) > Len(embeds_of_request)
                /\ \A r \in 1..Len(emb_rows) :
                     \A o \in objects_under(emb_rows[r][embeds_of_request[i].name]) :
                         nested_in(i)[n].name \in DOMAIN o

\* ------------------------------------------------------------ session SQL
\* auth.rs 353-524.  A claim name or a claim value is a sequence of pieces
\* as in the SQL text above; an Option is <<>> or <<x>>; the token's claims
\* are strings.

\* auth.rs 14-38: Claims as serde fills it: role and sub are fields, extra
\* (flatten) holds the claims that are not fields of the struct.
Claims(role, sub, extra) == [some |-> TRUE, role |-> role, sub |-> sub, extra |-> extra]
NoClaims == [some |-> FALSE, role |-> <<>>, sub |-> <<>>, extra |-> <<>>]
\* What is in the token: extra is a sequence of <<name, value>>.
extra_names(c) == {c.extra[i][1] : i \in 1..Len(c.extra)}
extra_index(c, name) == (CHOOSE i \in 1..Len(c.extra) : c.extra[i][1] = name)
claim_of(c, name) == c.extra[extra_index(c, name)][2]

\* auth.rs 517-524
build_claims_map(c) == [name \in extra_names(c) |-> claim_of(c, name)]
\* auth.rs 355-366: all_claims of resolve_role: role, sub and extra.
all_claims_of(c) ==
    [name \in extra_names(c) \cup (IF c.sub # <<>> THEN {<<"sub">>} ELSE {})
                             \cup (IF c.role # <<>> THEN {<<"role">>} ELSE {}) |->
        CASE name \in extra_names(c) -> claim_of(c, name)
          [] name = <<"sub">> -> c.sub[1]
          [] OTHER -> c.role[1]]

\* auth.rs 353-399: resolve_role for a role claim at the top level: the
\* value under role_claim among role, sub and extra, through role_map.
resolve_role(c, config) ==
    LET all_claims == all_claims_of(c)
    IN  IF config.role_claim \notin DOMAIN all_claims THEN <<>>
        ELSE LET s == all_claims[config.role_claim]
             IN  IF s \in DOMAIN config.role_map THEN <<config.role_map[s]>> ELSE <<s>>

\* auth.rs 416-423
map_to_db_user(c, config) ==
    IF c.some /\ resolve_role(c, config) # <<>> THEN resolve_role(c, config)
    ELSE config.anon_role

ExecuteAs(user) == [stmt |-> "EXECUTE AS USER", key |-> <<>>, value |-> user]
SetContext(key, value) ==
    [stmt |-> "sp_set_session_context", key |-> <<"request.jwt.claim.">> \o key,
     value |-> value]
quoted(str) == replace(str, "'", <<"'", "'">>)

\* auth.rs 436-441, 476-481
execute_as(c, config) ==
    LET db_user == map_to_db_user(c, config)
    IN  IF db_user # <<>> THEN <<ExecuteAs(quoted(db_user[1]))>> ELSE <<>>

\* auth.rs 444-459: one statement for each name of context_claims that is in
\* the claims map.
RECURSIVE context_stmts(_, _)
context_stmts(all_claims, names) ==
    IF names = <<>> THEN <<>>
    ELSE (IF Head(names) \in DOMAIN all_claims
          THEN <<SetContext(quoted(Head(names)), quoted(all_claims[Head(names)]))>>
          ELSE <<>>) \o context_stmts(all_claims, Tail(names))

\* auth.rs 432-462
build_session_sql(c, config) ==
    execute_as(c, config)
    \o (IF c.some THEN context_stmts(build_claims_map(c), config.context_claims) ELSE <<>>)

\* auth.rs 472-510: the path without context_claims: sub, role, then every
\* extra claim.
legacy_session_sql(c, config) ==
    execute_as(c, config)
    \o (IF c.some
        THEN (IF c.sub # <<>> THEN <<SetContext(<<"sub">>, quoted(c.sub[1]))>> ELSE <<>>)
             \o (IF c.role # <<>> THEN <<SetContext(<<"role">>, quoted(c.role[1]))>> ELSE <<>>)
             \o [i \in 1..Len(c.extra) |->
                    SetContext(quoted(c.extra[i][1]), quoted(c.extra[i][2]))]
        ELSE <<>>)

\* Tokens: with and without sub and role, with a quote in a value, with zero
\* to two additional claims.
Subs == {<<>>, <<<<"alice">>>>, <<<<"o", "'", "b">>>>}
Roles == {<<>>, <<<<"web">>>>}
Extras ==
    { <<>>,
      << <<<<"tenant">>, <<"t1">>>> >>,
      << <<<<"tenant">>, <<"a", "'", "c">>>> >>,
      << <<<<"org">>, <<"o1">>>>, <<<<"tenant">>, <<"t1">>>> >> }
ClaimSets == {NoClaims} \cup {Claims(r, s, e) : r \in Roles, s \in Subs, e \in Extras}
ContextClaims ==
    { <<>>, <<<<"sub">>>>, <<<<"tenant">>>>, <<<<"tenant">>, <<"sub">>>>,
      <<<<"org">>, <<"tenant">>>>, <<<<"role">>, <<"tenant">>>> }
RoleMaps == {<<>>, (<<"web">> :> <<"web_user">>)}
SessionConfigs ==
    {[context_claims |-> cc, role_claim |-> <<"role">>, role_map |-> m, anon_role |-> a] :
        cc \in ContextClaims, m \in RoleMaps, a \in {<<>>, <<<<"anon">>>>}}

\* A request has passed authenticate.
session_request ==
    /\ ses_pc = "idle"
    /\ \E c \in ClaimSets, config \in SessionConfigs :
         ses_claims' = c /\ ses_config' = config
    /\ ses_pc' = "build"
    /\ UNCHANGED ses_stmts

\* auth.rs 465-470: context_claims is configured.
session_context_claims ==
    /\ ses_pc = "build"
    /\ ses_config.context_claims # <<>>
    /\ ses_stmts' = build_session_sql(ses_claims, ses_config)
    /\ ses_pc' = "built"
    /\ UNCHANGED <<ses_claims, ses_config>>

\* auth.rs 472-510: context_claims is empty.
session_legacy ==
    /\ ses_pc = "build"
    /\ ses_config.context_claims = <<>>
    /\ ses_stmts' = legacy_session_sql(ses_claims, ses_config)
    /\ ses_pc' = "built"
    /\ UNCHANGED <<ses_claims, ses_config>>

\* The prologue goes out in front of the query.
session_sent ==
    /\ ses_pc = "built"
    /\ ses_pc' = "idle"
    /\ ses_claims' = NoClaims
    /\ ses_stmts' = <<>>
    /\ UNCHANGED ses_config

InitSession ==
    /\ ses_pc = "idle"
    /\ ses_claims = NoClaims
    /\ ses_config = [context_claims |-> <<>>, role_claim |-> <<"role">>,
                     role_map |-> <<>>, anon_role |-> <<>>]
    /\ ses_stmts = <<>>

NextSession ==
    \/ session_request
    \/ session_context_claims
    \/ session_legacy
    \/ session_sent

\* ---- C17

\* A claim of the verified token, standard or additional.
in_token(c, name) ==
    \/ name = <<"sub">> /\ c.sub # <<>>
    \/ name = <<"role">> /\ c.role # <<>>
    \/ name \in extra_names(c)
token_value(c, name) ==
    CASE name \in extra_names(c) -> claim_of(c, name)
      [] name = <<"sub">> -> c.sub[1]
      [] OTHER -> c.role[1]
context_of(stmts) == SelectSeq(stmts, LAMBDA x : x.stmt = "sp_set_session_context")

\* C17: for every name of the context-claims list that is in the verified
\* token, a standard claim or an additional one, the prologue has exactly one
\* sp_set_session_context statement for request.jwt.claim.<name> with the
\* claim's value, quotes doubled, in the order of the list, after EXECUTE AS
\* USER when a principal was resolved.
C17_ContextClaimsSet ==
    (ses_pc = "built" /\ ses_claims.some /\ ses_config.context_claims # <<>>) =>
        LET present == SelectSeq(ses_config.context_claims,
                                 LAMBDA name : in_token(ses_claims, name))
        IN  /\ context_of(ses_stmts) =
                  [i \in 1..Len(present) |->
                      SetContext(quoted(present[i]),
                                 quoted(token_value(ses_claims, present[i])))]
            /\ map_to_db_user(ses_claims, ses_config) # <<>> =>
                  /\ ses_stmts[1].stmt = "EXECUTE AS USER"
                  /\ Len(ses_stmts) = 1 + Len(present)

\* ------------------------------------------------------------ fan-out
\* realtime.rs 394-475 (poll_once) and realtime_ws.rs 45-113 (handle_socket)
\* with two clients, each with its own channel, subscribed to dbo.orders.

MaxChanges == 2
Subscribers == {"w1", "w2"}
OrdersMsgs == {m \in SubscribeMsgs : m.table = "orders"}
\* The rows of the change query: an insert of either status, an update, a
\* delete.
ChangeRows ==
    {[table |-> "dbo.orders", op |-> x[1], ct_id |-> PkValue, status |-> x[2]] :
        x \in {<<"I", "open">>, <<"I", "paid">>, <<"U", "paid">>, <<"D", "paid">>}}

\* realtime.rs 114-197 and realtime_ws.rs 88-113: a Subscribe message: the
\* subscription is registered and the handler has the acknowledgement to send.
fo_subscribe(c, m) ==
    /\ fo_reply[c] = NoReply
    /\ fo_next_uuid <= Len(Uuids)
    /\ LET sub == [id |-> m.id, table_key |-> table_key_of(m.table), client_tx |-> c,
                   filter |-> parsed_filters(m.filter), events |-> event_set(m.events)]
       IN  /\ fo_all_subs' = Insert(fo_all_subs, Uuids[fo_next_uuid], sub)
           /\ fo_table_subs' = Append(fo_table_subs, Uuids[fo_next_uuid])
    /\ fo_next_uuid' = fo_next_uuid + 1
    /\ fo_reply' = [fo_reply EXCEPT ![c] = [type |-> "subscribed", id |-> m.id]]
    /\ UNCHANGED <<fo_queue, fo_pc, fo_rows, fo_seen>>

\* realtime_ws.rs 88-113: tx.send(..).await of the acknowledgement waits for
\* room in the channel.
fo_send_reply(c) ==
    /\ fo_reply[c] # NoReply
    /\ Len(fo_queue[c]) < QueueCap
    /\ fo_queue' = [fo_queue EXCEPT ![c] = Append(@, fo_reply[c])]
    /\ fo_reply' = [fo_reply EXCEPT ![c] = NoReply]
    /\ UNCHANGED <<fo_all_subs, fo_table_subs, fo_next_uuid, fo_pc, fo_rows, fo_seen>>

\* realtime_ws.rs 56-64: send_task forwards the head of the channel.
fo_send_task(c) ==
    /\ fo_queue[c] # <<>>
    /\ fo_queue' = [fo_queue EXCEPT ![c] = Tail(@)]
    /\ UNCHANGED <<fo_all_subs, fo_table_subs, fo_next_uuid, fo_reply, fo_pc, fo_rows,
                   fo_seen>>

\* realtime.rs 394-424: a tick: the change query returns rows.
fo_poll_query(changed) ==
    /\ fo_pc = "sleep"
    /\ fo_rows' = changed
    /\ fo_pc' = IF changed # <<>> THEN "fanout" ELSE "sleep"
    /\ fo_seen' = {}
    /\ UNCHANGED <<fo_all_subs, fo_table_subs, fo_next_uuid, fo_queue, fo_reply>>

\* realtime.rs 425-475: one row is fanned out; after the last the tick stores
\* the watermark and returns.
fo_fan_out ==
    /\ fo_pc = "fanout"
    /\ LET row == Head(fo_rows)
           done == fan_out_over(fo_all_subs, fo_table_subs, ChangeOp(row.op), record_of(row),
                                [q |-> fo_queue, seen |-> {}])
       IN  /\ fo_queue' = done.q
           /\ fo_seen' = done.seen
    /\ fo_rows' = Tail(fo_rows)
    /\ fo_pc' = IF fo_rows' # <<>> THEN "fanout" ELSE "sleep"
    /\ UNCHANGED <<fo_all_subs, fo_table_subs, fo_next_uuid, fo_reply>>

InitFanOut ==
    /\ fo_all_subs = <<>>
    /\ fo_table_subs = <<>>
    /\ fo_next_uuid = 1
    /\ fo_queue = [c \in Subscribers |-> <<>>]
    /\ fo_reply = [c \in Subscribers |-> NoReply]
    /\ fo_pc = "sleep"
    /\ fo_rows = <<>>
    /\ fo_seen = {}

NextFanOut ==
    \/ \E c \in Subscribers, m \in OrdersMsgs : fo_subscribe(c, m)
    \/ \E c \in Subscribers : fo_send_reply(c)
    \/ \E c \in Subscribers : fo_send_task(c)
    \/ \E changed \in UNION {[1..n -> ChangeRows] : n \in 0..MaxChanges} :
          fo_poll_query(changed)
    \/ fo_fan_out

\* ---- C19

\* The messages a row brings to a client's queue with `room` free places: one
\* for each subscription of the client that the row passes, in registration
\* order, as many as there is room for.
RECURSIVE due(_, _, _, _)
due(uuids, c, row, room) ==
    IF uuids = <<>> \/ room = 0 THEN <<>>
    ELSE LET sub == fo_all_subs[Head(uuids)]
         IN  IF sub.client_tx = c /\ passes(sub, ChangeOp(row.op), record_of(row))
             THEN <<Change(sub, ChangeOp(row.op), record_of(row))>>
                  \o due(Tail(uuids), c, row, room - 1)
             ELSE due(Tail(uuids), c, row, room)

\* The fan-out of a row: no queue is over its capacity, a full queue is
\* left as it is, every other queue gets its messages behind those it
\* holds, and the row is done.
FanOutStep ==
    fo_fan_out =>
        /\ fo_rows' = Tail(fo_rows)
        /\ fo_pc' \in {"fanout", "sleep"}
        /\ \A c \in Subscribers :
             /\ Len(fo_queue'[c]) <= QueueCap
             /\ Len(fo_queue[c]) = QueueCap => fo_queue'[c] = fo_queue[c]
             /\ fo_queue'[c] =
                   fo_queue[c] \o due(fo_table_subs, c, Head(fo_rows),
                                      QueueCap - Len(fo_queue[c]))

\* C19: when a subscriber's queue is full, a poll tick drops the change
\* message for that subscriber and goes on without blocking: the fan-out is
\* enabled whatever the queues hold, the other subscribers get their
\* messages, and no queue ever holds more than its capacity.
C19_FullQueueDrops ==
    /\ [](fo_pc = "fanout" => ENABLED fo_fan_out)
    /\ [](\A c \in Subscribers : Len(fo_queue[c]) <= QueueCap)
    /\ [][FanOutStep]_vars

\* A row was dropped for a client whose queue was full and sent to the other
\* client in the same fan-out.
C19_Witness ==
    \E d \in fo_seen, e \in fo_seen :
        /\ passes(d.sub, d.op, d.record) /\ ~d.room /\ ~d.sent
        /\ e.sent
        /\ d.sub.client_tx # e.sub.client_tx
        /\ Len(fo_queue[d.sub.client_tx]) = QueueCap

\* ------------------------------------------------------------ poll tick
\* ---- C21

\* A step of a tick that has read its version V: V stays what was read, and
\* the watermark moves only in the store, after every table, to V.
TickKeepsVersion ==
    ppc \in {"query", "fanout", "store"} =>
        /\ ppc' # "sleep" => current_version' = current_version
        /\ last_version' # last_version =>
              /\ ppc = "store" /\ ppc' = "sleep"
              /\ active_tables = {} /\ rows = <<>>
              /\ last_version' = current_version
        /\ (ppc = "store" /\ ppc' = "sleep") => last_version' = current_version
\* The step that reads the version: a version above the watermark is kept
\* as V before any change query; with any other the tick ends: no change
\* query, no message, the watermark as it was.
TickReadsVersion ==
    (ppc = "version" /\ ppc' # "version") =>
        /\ last_version' = last_version
        /\ queue' = queue
        /\ rows' = <<>>
        /\ IF db_version > last_version /\ ppc' # "sleep"
           THEN ppc' = "query" /\ current_version' = db_version /\ last' = last_version
           ELSE ppc' = "sleep"
        /\ db_version <= last_version => ppc' = "sleep"

\* C21: a tick that reads a version V above the watermark sets the watermark
\* to exactly V, the version read before any change query of the tick, after
\* every subscribed table, whatever larger versions the rows carry; a tick
\* that reads a version not above the watermark sends no change query and no
\* message and leaves the watermark as it is.
C21_WatermarkIsVersionRead ==
    [][engine = "running" => (TickKeepsVersion /\ TickReadsVersion)]_vars

\* A tick is at its store with every table done while the database is
\* already at a version above the one the tick read.
C21_Witness ==
    /\ ppc = "store"
    /\ active_tables = {}
    /\ current_version > last_version
    /\ db_version > current_version

\* ------------------------------------------------------------ acknowledgements
\* ---- C26, C27

IsChange(msg) == msg.type \in {"INSERT", "UPDATE", "DELETE"}

\* C26: a client's queue never carries a change event for a subscription id
\* ahead of the `subscribed` acknowledgement for it: while the handler still
\* has the acknowledgement of the client's first subscription to send, no
\* change event with that id is in the queue.
C26_AckBeforeChange ==
    \A c \in WsClients :
        (wpc[c] = "reply" /\ reply[c].type = "subscribed" /\ next_uuid = 2) =>
            \A i \in 1..Len(queue[c]) :
                ~(IsChange(queue[c][i]) /\ queue[c][i].id = reply[c].id)

\* C27: when unsubscribe(client, id) has returned and the handler has the
\* `unsubscribed` acknowledgement to send, no subscription of the client with
\* that id is registered, however many subscribes with the id went before.
C27_NoneLeftWithId ==
    \A c \in WsClients :
        (wpc[c] = "reply" /\ reply[c].type = "unsubscribed") =>
            /\ \A u \in DOMAIN all_subs :
                   ~(all_subs[u].client_tx = c /\ all_subs[u].id = reply[c].id)
            /\ \A t \in DOMAIN table_subs : \A u \in Range(table_subs[t]) :
                   u \in DOMAIN all_subs =>
                       ~(all_subs[u].client_tx = c /\ all_subs[u].id = reply[c].id)

\* ------------------------------------------------------------ failed connects
\* ---- C30

\* Pool::get calls that hold a permit and have no connection yet.
Acquiring == Cardinality({t \in Tasks : pc[t] \in {"pop", "create"}})
\* Every permit is free, with a Pool::get on its way, or with a connection
\* that is in use.
PermitsConserved == permits + Acquiring + InUse = PoolSize
\* The step in which create_connection fails inside Pool::get of task t.
ConnectFails(t) == pc[t] = "create" /\ pc'[t] \notin {"create", "query"}

\* C30: when opening a connection fails inside Pool::get, the call returns
\* a Pool error and the permit of the attempt is given back: the free list
\* is as it was, and after any number of failures the pool can still hand
\* out pool_size connections at a time.
C30_FailedConnectReturnsPermit ==
    /\ []PermitsConserved
    /\ [][\A t \in Tasks :
            ConnectFails(t) =>
                /\ permits' = permits + 1
                /\ connections' = connections
                /\ held' = held
                /\ t = Get => outcome' = "pool_error"]_vars

\* The GET request has failed with a Pool error, and pool_size connections
\* are out with the other callers.
C30_Witness ==
    /\ outcome = "pool_error"
    /\ Cardinality({t \in Tasks : held[t] # {}}) = PoolSize

\* ------------------------------------------------------------ impersonation
\* handlers.rs 532-563 (execute_query_to_json), pool.rs 188-222, and what
\* SQL Server keeps of a batch: EXECUTE AS USER at the level of a session
\* stays in effect for the batches that follow until a REVERT.

\* A new connection executes as its login.
Login == NoUser
Revert == "REVERT"

\* The user a session executes as after a batch.
RECURSIVE context_after(_, _, _)
context_after(context, batch, user) ==
    IF batch = <<>> THEN context
    ELSE context_after(CASE Head(batch) = "EXECUTE AS USER" -> user
                         [] Head(batch) = Revert -> Login
                         [] OTHER -> context,
                       Tail(batch), user)

\* claw::connect: a connection no one else has.
imp_new_conn ==
    CHOOSE c \in ConnIds :
        /\ c \notin Range(imp_free) \cup imp_returning \cup imp_held
        /\ \A d \in ConnIds :
              d \notin Range(imp_free) \cup imp_returning \cup imp_held => c <= d

\* handle_get up to its first pool.get().
imp_handle_get ==
    /\ imp_pc = "idle"
    /\ \E c \in BOOLEAN, e \in 0..MaxEmbeds, u \in Principals :
           imp_req' = [count |-> c, embeds |-> e, principal |-> u]
    /\ imp_pc' = "get"
    /\ UNCHANGED <<imp_idx, imp_held, imp_free, imp_returning, imp_context, imp_ran>>

\* Pool::get: a permit, then the last connection of the free list or a new one.
imp_pool_get ==
    /\ imp_pc = "get"
    /\ Cardinality(imp_returning) < PoolSize
    /\ IF imp_free # <<>>
       THEN /\ imp_held' = {imp_free[Len(imp_free)]}
            /\ imp_free' = SubSeq(imp_free, 1, Len(imp_free) - 1)
            /\ UNCHANGED imp_context
       ELSE /\ imp_held' = {imp_new_conn}
            /\ imp_context' = [imp_context EXCEPT ![imp_new_conn] = Login]
            /\ UNCHANGED imp_free
    /\ imp_pc' = "query"
    /\ UNCHANGED <<imp_req, imp_idx, imp_returning, imp_ran>>

\* execute_query_to_json / handle_embeds after pool.get(): the batch runs on
\* the connection, the function returns and the connection is dropped.
imp_execute(ok) ==
    /\ imp_pc = "query"
    /\ \E c \in imp_held :
         LET stmt == Program(imp_req)[imp_idx]
             batch == full_sql(stmt, imp_req.principal)
             before == SubSeq(batch, 1, Len(batch) - 1)
         IN  /\ imp_ran' = Append(imp_ran,
                                  [batch |-> batch,
                                   as_user |-> context_after(imp_context[c], before,
                                                             imp_req.principal)])
             /\ imp_context' = [imp_context EXCEPT
                                  ![c] = context_after(@, batch, imp_req.principal)]
             /\ imp_returning' = imp_returning \cup {c}
    /\ imp_held' = {}
    /\ IF ok /\ imp_idx < Len(Program(imp_req))
       THEN imp_idx' = imp_idx + 1 /\ imp_pc' = "get"
       ELSE imp_idx' = imp_idx /\ imp_pc' = "done"
    /\ UNCHANGED <<imp_req, imp_free>>

\* Pool::return_connection: the connection goes back to the free list.
imp_return_connection(c) ==
    /\ c \in imp_returning
    /\ imp_returning' = imp_returning \ {c}
    /\ imp_free' = IF Len(imp_free) < PoolSize THEN Append(imp_free, c) ELSE imp_free
    /\ UNCHANGED <<imp_pc, imp_req, imp_idx, imp_held, imp_context, imp_ran>>

\* The response is sent; the handler takes the next request.
imp_respond ==
    /\ imp_pc = "done"
    /\ imp_pc' = "idle"
    /\ imp_req' = NoRequest
    /\ imp_idx' = 1
    /\ imp_ran' = <<>>
    /\ UNCHANGED <<imp_held, imp_free, imp_returning, imp_context>>

InitImpersonate ==
    /\ imp_pc = "idle"
    /\ imp_req = NoRequest
    /\ imp_idx = 1
    /\ imp_held = {}
    /\ imp_free = <<>>
    /\ imp_returning = {}
    /\ imp_context = [c \in ConnIds |-> Login]
    /\ imp_ran = <<>>

NextImpersonate ==
    \/ imp_handle_get
    \/ imp_pool_get
    \/ \E ok \in BOOLEAN : imp_execute(ok)
    \/ \E c \in ConnIds : imp_return_connection(c)
    \/ imp_respond

\* ---- C29

\* The batch has the revert statement after its EXECUTE AS USER.
Reverts(batch) ==
    \A i \in 1..Len(batch) :
        batch[i] = "EXECUTE AS USER" => \E j \in (i + 1)..Len(batch) : batch[j] = Revert

\* C29: a pooled connection is never handed to a request while it still
\* impersonates the principal of an earlier request: every batch with
\* EXECUTE AS USER has the revert statement after it, no connection of the
\* free list executes as a user, and the statements of a request run as the
\* principal of its own token.
C29_RevertedBeforeReuse ==
    /\ \A i \in 1..Len(imp_ran) :
          /\ Reverts(imp_ran[i].batch)
          /\ imp_ran[i].as_user = imp_req.principal
    /\ \A i \in 1..Len(imp_free) : imp_context[imp_free[i]] = Login

\* ------------------------------------------------------------ WebSocket upgrade
\* realtime_ws.rs 28-44 (ws_handler), 46-105 (handle_socket).

NoQueryToken == [some |-> FALSE, token |-> Empty]
WsTokens == {NoQueryToken} \cup [some : {TRUE}, token : Tokens]
NoWsClaims == "none"

\* format!("Bearer {}", token)
bearer(token) == [some |-> TRUE, prefix |-> "Bearer ", rest |-> token]

\* realtime_ws.rs 33-42: the claims of the upgrade request: those of the
\* token when authenticate admits it, none when there is no token and when
\* authenticate fails.
ws_claims(query, config) ==
    IF query.some
    THEN LET result == authenticate(bearer(query.token), config)
         IN  IF result.ok THEN result.kind ELSE NoWsClaims
    ELSE NoWsClaims

\* config.rs: AppConfig::load at startup.
ws_load_config(auth_mode_str, jwt_secret, anon_role) ==
    /\ wsa_pc = "boot"
    /\ wsa_config' = [auth_mode |-> auth_mode_of(auth_mode_str, jwt_secret),
                      jwt_secret |-> jwt_secret, anon_role |-> anon_role]
    /\ wsa_pc' = "serving"
    /\ UNCHANGED <<wsa_token, wsa_claims, wsa_subscribed, wsa_received>>

\* realtime_ws.rs 28-44: ws_handler: the claims are worked out and the
\* socket is upgraded with them.
ws_handler(query) ==
    /\ wsa_pc = "serving"
    /\ wsa_token' = query
    /\ wsa_claims' = ws_claims(query, wsa_config)
    /\ wsa_pc' = "open"
    /\ UNCHANGED <<wsa_config, wsa_subscribed, wsa_received>>

\* realtime_ws.rs 72-95: a Subscribe message: engine.subscribe registers the
\* subscription; _claims is not read.
ws_subscribe ==
    /\ wsa_pc = "open"
    /\ wsa_subscribed' = TRUE
    /\ UNCHANGED <<wsa_pc, wsa_config, wsa_token, wsa_claims, wsa_received>>

\* realtime.rs 425-470 and realtime_ws.rs 56-64: a tick fans a change out to
\* the subscription and send_task forwards it to the socket.
ws_change ==
    /\ wsa_pc = "open"
    /\ wsa_subscribed
    /\ wsa_received' = TRUE
    /\ UNCHANGED <<wsa_pc, wsa_config, wsa_token, wsa_claims, wsa_subscribed>>

\* realtime_ws.rs 121-128: the socket closes.
ws_close ==
    /\ wsa_pc = "open"
    /\ wsa_pc' = "serving"
    /\ wsa_token' = NoQueryToken
    /\ wsa_claims' = NoWsClaims
    /\ wsa_subscribed' = FALSE
    /\ wsa_received' = FALSE
    /\ UNCHANGED wsa_config

InitWs ==
    /\ wsa_pc = "boot"
    /\ wsa_config = NoConfig
    /\ wsa_token = NoQueryToken
    /\ wsa_claims = NoWsClaims
    /\ wsa_subscribed = FALSE
    /\ wsa_received = FALSE

NextWs ==
    \/ \E m \in {None, "oidc", "jwt-secret", "hs256"}, k \in Secrets \cup {None},
          a \in AnonRoles \cup {None} : ws_load_config(m, k, a)
    \/ \E query \in WsTokens : ws_handler(query)
    \/ ws_subscribe
    \/ ws_change
    \/ ws_close

\* ---- C28

\* A token mode is configured and there is no anonymous role.
AuthRequired(config) ==
    /\ config.anon_role = None
    /\ \/ config.auth_mode = "Oidc"
       \/ config.auth_mode = "JwtSecret" /\ config.jwt_secret # None
\* The upgrade request carries a token that verifies.
Verified(query, config) ==
    /\ query.some
    /\ authenticate(bearer(query.token), config) = Ok("claims")

\* C28: when authentication is required, a WebSocket client whose token is
\* missing or fails verification never registers a subscription and never
\* receives a change event.
C28_UnauthenticatedShutOut ==
    (wsa_pc = "open" /\ AuthRequired(wsa_config) /\ ~Verified(wsa_token, wsa_config)) =>
        ~wsa_subscribed /\ ~wsa_received

\* ------------------------------------------------------------ change feed
\* realtime.rs 281-477 with the history of what was fanned out: the writers of
\* the database, subscribe, and the steps of poll_once.  Every write inserts a
\* row of its own, so the change table returns it under its own version.
MaxFeed == 3
FeedTables == {"dbo.orders", "dbo.notes"}

\* The changes of a table committed after a version, as CHANGETABLE(CHANGES
\* t, @P1) returns them when the query runs (realtime.rs 364-376).
changes_since(committed_log, table_key, version) ==
    {i \in 1..Len(committed_log) : committed_log[i] = table_key /\ i > version}

\* A writer commits a change of a table.
fd_write(table_key) ==
    /\ Len(fd_log) < MaxFeed
    /\ fd_log' = Append(fd_log, table_key)
    /\ UNCHANGED <<fd_since, fd_last_version, fd_pc, fd_active, fd_todo, fd_current,
                   fd_last, fd_skipped, fd_delivered, fd_again>>

\* realtime.rs 114-197: subscribe registers the subscription under its table.
fd_subscribe(table_key) ==
    /\ fd_since[table_key] = <<>>
    /\ fd_since' = [fd_since EXCEPT ![table_key] = <<Len(fd_log)>>]
    /\ UNCHANGED <<fd_log, fd_last_version, fd_pc, fd_active, fd_todo, fd_current,
                   fd_last, fd_skipped, fd_delivered, fd_again>>

\* realtime.rs 282-293: the tick reads the active tables and returns when
\* there is none.
fd_poll_once ==
    /\ fd_pc = "sleep"
    /\ LET tables_now == {t \in FeedTables : fd_since[t] # <<>>} IN
         /\ fd_active' = tables_now
         /\ fd_pc' = IF tables_now = {} THEN "sleep" ELSE "version"
    /\ fd_skipped' = {}
    /\ UNCHANGED <<fd_log, fd_since, fd_last_version, fd_todo, fd_current, fd_last,
                   fd_delivered, fd_again>>

\* realtime.rs 295-323: the version is read, then the watermark is loaded; the
\* tick returns on an error and when the version is not above the watermark.
fd_poll_version(ok) ==
    /\ fd_pc = "version"
    /\ IF ok
       THEN /\ fd_current' = Len(fd_log)
            /\ fd_last' = fd_last_version
            /\ fd_pc' = IF Len(fd_log) <= fd_last_version THEN "sleep" ELSE "query"
            /\ fd_todo' = IF Len(fd_log) <= fd_last_version THEN {} ELSE fd_active
       ELSE /\ fd_pc' = "sleep"
            /\ UNCHANGED <<fd_current, fd_last, fd_todo>>
    /\ UNCHANGED <<fd_log, fd_since, fd_last_version, fd_active, fd_skipped, fd_delivered,
                   fd_again>>

\* realtime.rs 327-470: one table of the loop; a failed query or result is
\* logged and the loop continues, the rows of a successful one are fanned out.
fd_poll_query(table_key, ok) ==
    /\ fd_pc = "query"
    /\ table_key \in fd_todo
    /\ fd_todo' = fd_todo \ {table_key}
    /\ IF ok
       THEN LET fetched == {<<table_key, i>> : i \in changes_since(fd_log, table_key, fd_last)}
            IN  /\ fd_delivered' = fd_delivered \cup fetched
                /\ fd_again' = fd_again \cup (fetched \cap fd_delivered)
                /\ UNCHANGED fd_skipped
       ELSE /\ fd_skipped' = fd_skipped \cup {table_key}
            /\ UNCHANGED <<fd_delivered, fd_again>>
    /\ UNCHANGED <<fd_log, fd_since, fd_last_version, fd_pc, fd_active, fd_current, fd_last>>

\* realtime.rs 473-477: after the loop the version read is stored.
fd_poll_store ==
    /\ fd_pc = "query"
    /\ fd_todo = {}
    /\ fd_last_version' = fd_current
    /\ fd_pc' = "sleep"
    /\ UNCHANGED <<fd_log, fd_since, fd_active, fd_todo, fd_current, fd_last, fd_skipped,
                   fd_delivered, fd_again>>

\* realtime.rs 243-275: init_version has stored the version of the empty log.
InitFeed ==
    /\ fd_log = <<>>
    /\ fd_since = [t \in FeedTables |-> <<>>]
    /\ fd_last_version = 0
    /\ fd_pc = "sleep"
    /\ fd_active = {}
    /\ fd_todo = {}
    /\ fd_current = 0
    /\ fd_last = 0
    /\ fd_skipped = {}
    /\ fd_delivered = {}
    /\ fd_again = {}

NextFeed ==
    \/ \E table_key \in FeedTables : fd_write(table_key)
    \/ \E table_key \in FeedTables : fd_subscribe(table_key)
    \/ fd_poll_once
    \/ \E ok \in BOOLEAN : fd_poll_version(ok)
    \/ \E table_key \in FeedTables, ok \in BOOLEAN : fd_poll_query(table_key, ok)
    \/ fd_poll_store

\* C23: the watermark advances to the version V a tick read only after the
\* changes in (previous watermark, V] of every table active in the tick have
\* been fetched and fanned out.
C23_AdvanceAfterFanOut ==
    [][fd_last_version' # fd_last_version =>
          \A t \in fd_active : \A i \in changes_since(fd_log, t, fd_last) :
              i <= fd_current => <<t, i>> \in fd_delivered]_vars

\* C24: a committed change is fanned out to the subscription of its table at
\* most once, also when writers commit between the version read and the
\* change query of a tick.
C24_AtMostOnce == fd_again = {}

\* C25: a subscription receives only changes committed after it was
\* registered.
C25_OnlyLaterChanges ==
    \A d \in fd_delivered : fd_since[d[1]] # <<>> /\ d[2] > fd_since[d[1]][1]

\* ------------------------------------------------------------ specifications
Init ==
    /\ InitPool
    /\ InitRealtime
    /\ InitDml
    /\ InitAuth
    /\ InitOidc
    /\ InitCatalog
    /\ InitSql
    /\ InitParse
    /\ InitEmbed
    /\ InitSession
    /\ InitFanOut
    /\ InitImpersonate
    /\ InitWs
    /\ InitFeed
Spec ==
    Init /\ [][NextPool
                /\ UNCHANGED <<rtVars, dmlVars, authVars, oidcVars, catalogVars, sqlVars,
                              parseVars, embedVars, sessionVars, fanOutVars, impVars,
                              wsaVars, feedVars>>]_vars
SpecRealtime ==
    Init /\ [][NextRealtime
                /\ UNCHANGED <<poolVars, taskVars, getVars, dmlVars, authVars, oidcVars,
                              catalogVars, sqlVars, parseVars, embedVars, sessionVars,
                              fanOutVars, impVars, wsaVars, feedVars>>]_vars
SpecDml ==
    Init /\ [][NextDml
                /\ UNCHANGED <<poolVars, taskVars, getVars, rtVars, authVars, oidcVars,
                              catalogVars, sqlVars, parseVars, embedVars, sessionVars,
                              fanOutVars, impVars, wsaVars, feedVars>>]_vars
SpecAuth ==
    Init /\ [][NextAuth
                /\ UNCHANGED <<poolVars, taskVars, getVars, rtVars, dmlVars, oidcVars,
                              catalogVars, sqlVars, parseVars, embedVars, sessionVars,
                              fanOutVars, impVars, wsaVars, feedVars>>]_vars
SpecOidc ==
    Init /\ [][NextOidc
                /\ UNCHANGED <<poolVars, taskVars, getVars, rtVars, dmlVars, authVars,
                              catalogVars, sqlVars, parseVars, embedVars, sessionVars,
                              fanOutVars, impVars, wsaVars, feedVars>>]_vars
SpecCatalog ==
    Init /\ [][NextCatalog
                /\ UNCHANGED <<poolVars, taskVars, getVars, rtVars, dmlVars, authVars,
                              oidcVars, sqlVars, parseVars, embedVars, sessionVars,
                              fanOutVars, impVars, wsaVars, feedVars>>]_vars
SpecSql ==
    Init /\ [][NextSql
                /\ UNCHANGED <<poolVars, taskVars, getVars, rtVars, dmlVars, authVars,
                              oidcVars, catalogVars, parseVars, embedVars, sessionVars,
                              fanOutVars, impVars, wsaVars, feedVars>>]_vars
SpecParse ==
    Init /\ [][NextParse
                /\ UNCHANGED <<poolVars, taskVars, getVars, rtVars, dmlVars, authVars,
                              oidcVars, catalogVars, sqlVars, embedVars, sessionVars,
                              fanOutVars, impVars, wsaVars, feedVars>>]_vars
SpecEmbed ==
    Init /\ [][NextEmbed
                /\ UNCHANGED <<poolVars, taskVars, getVars, rtVars, dmlVars, authVars,
                              oidcVars, catalogVars, sqlVars, parseVars, sessionVars,
                              fanOutVars, impVars, wsaVars, feedVars>>]_vars
SpecSession ==
    Init /\ [][NextSession
                /\ UNCHANGED <<poolVars, taskVars, getVars, rtVars, dmlVars, authVars,
                              oidcVars, catalogVars, sqlVars, parseVars, embedVars,
                              fanOutVars, impVars, wsaVars, feedVars>>]_vars
SpecFanOut ==
    Init /\ [][NextFanOut
                /\ UNCHANGED <<poolVars, taskVars, getVars, rtVars, dmlVars, authVars,
                              oidcVars, catalogVars, sqlVars, parseVars, embedVars,
                              sessionVars, impVars, wsaVars, feedVars>>]_vars
SpecImpersonate ==
    Init /\ [][NextImpersonate
                /\ UNCHANGED <<poolVars, taskVars, getVars, rtVars, dmlVars, authVars,
                              oidcVars, catalogVars, sqlVars, parseVars, embedVars,
                              sessionVars, fanOutVars, wsaVars, feedVars>>]_vars
SpecWs ==
    Init /\ [][NextWs
                /\ UNCHANGED <<poolVars, taskVars, getVars, rtVars, dmlVars, authVars,
                              oidcVars, catalogVars, sqlVars, parseVars, embedVars,
                              sessionVars, fanOutVars, impVars, feedVars>>]_vars
SpecFeed ==
    Init /\ [][NextFeed
                /\ UNCHANGED <<poolVars, taskVars, getVars, rtVars, dmlVars, authVars,
                              oidcVars, catalogVars, sqlVars, parseVars, embedVars,
                              sessionVars, fanOutVars, impVars, wsaVars>>]_vars

====
